---- MODULE Spec2Model ----
(***************************************************************************)
(* Iterative Repair Engine: Bug Classifier, Fault Localizer, Fix Applier   *)
(* and the two Repair Loop Controllers (Agent.run and the graph workflow). *)
(***************************************************************************)
EXTENDS Integers, Sequences, FiniteSets, TLC

VARIABLES
    mode,           \* which controller runs: "agent" (Agent.run) or "graph" (workflow)
    pc,             \* position of the controller
    max_iterations, \* the iteration budget N
    repo,           \* working tree: file path -> content
    head,           \* the tree of the last commit
    walk_order,     \* order in which os.walk lists the files
    suite,          \* the Failure Records the repository's tests can produce
    test_result,    \* last result of run_tests: [success, failures]
    iteration,      \* Agent.run loop variable / state["iterations"] of the graph
    failures_before,\* state["failures_before"] / iter_result.failures_before
    groups,         \* file_failure_groups of the current round, insertion order
    tried,          \* records of the first group for which generate_fix gave no fix
    fixes,          \* Change Records of the current round
    all_changes,    \* Change Records of the whole run
    summary,        \* RunSummary
    events,         \* observable operations in execution order
    cls_failures,   \* input of the multi-record classifier
    cls_result,     \* its result
    loc_failure,    \* input of the localizer
    loc_result,     \* its result
    app_result,     \* result of one generate_fix call on loc_failure
    run_output,     \* raw output of the test runner, line by line
    run_languages,  \* the ecosystem hints
    on_disk,        \* the paths of the runner's output that exist in the file system
    run_failures,   \* the Failure Records parsed from run_output
    change_record,  \* original and new text of a Change Record, and its diff
    extraction,     \* an Oracle answer, the file it is for, and what is made of it
    registry,       \* active_runs[run_id] of the run: its status and summary
    stream,         \* ws_connections[run_id], the broadcast in progress, the subscribers
    checkout,       \* the runs of the clone service and the directories of the clone root
    attempt,        \* one call of the Fix Applier under a fault, and how it ended
    pair            \* the inputs given to both controllers and what Agent.run made of them

ctlVars == <<mode, pc, max_iterations, suite, test_result, iteration, failures_before,
             groups, tried, fixes, all_changes, summary, events, head>>
fsVars  == <<repo, walk_order>>
clsVars == <<cls_failures, cls_result>>
locVars == <<loc_failure, loc_result>>
outVars == <<run_output, run_languages, on_disk, run_failures>>
unitVars == <<app_result, outVars, change_record, extraction>>
runVars == <<registry, stream, checkout, attempt, pair>>
vars    == <<ctlVars, fsVars, clsVars, locVars, unitVars, runVars>>

-----------------------------------------------------------------------------
(* Bounds *)
MaxBudget   == 2   \* largest iteration budget explored
MaxGroup    == 2   \* longest list handed to the multi-record classifier
MaxLines    == 3   \* longest runner output, in lines
MaxFileLines == 2  \* longest file text handed to _generate_diff, in lines
MaxResponse == 5   \* longest Oracle answer, in lines
MaxEvents   == 3   \* most events a run emits

-----------------------------------------------------------------------------
(* Text of Failure Records.  Matching in the source is substring search on  *)
(* lower-cased text; the tables give, for every string of the vocabulary,   *)
(* the keywords of the source that occur in its lower-cased form.           *)

None == "<none>"

Messages == {
    "",
    "SyntaxError: invalid syntax",
    "IndentationError: unexpected indent",
    "TabError: inconsistent use of tabs",
    "TypeError: unsupported operand",
    "ImportError: cannot import name 'add' (math_utils.py)",
    "ModuleNotFoundError: No module named 'math_util'",
    "ModuleNotFoundError: No module named 'mathutil'",
    "NameError: name 'add' is not defined",
    "AssertionError: assert 1 == 2",
    "F821 undefined name 'add'" }

ErrorTypes == {
    "", "SyntaxError", "IndentationError", "TabError", "TypeError",
    "ImportError", "ModuleNotFoundError", "NameError", "AssertionError" }

RawOutputs == { "", "E   ModuleNotFoundError: No module named 'math_util'" }

KeywordsIn ==
    "" :> {} @@
    "SyntaxError" :> {"syntaxerror"} @@
    "IndentationError" :> {"indentationerror", "indentation"} @@
    "TabError" :> {"taberror"} @@
    "TypeError" :> {"typeerror"} @@
    "ImportError" :> {"import", "importerror"} @@
    "ModuleNotFoundError" :> {"modulenotfounderror"} @@
    "NameError" :> {"nameerror", "name"} @@
    "AssertionError" :> {"assert"} @@
    "SyntaxError: invalid syntax" :> {"syntaxerror", "invalid syntax"} @@
    "IndentationError: unexpected indent" :> {"indentationerror", "indentation", "unexpected indent", "expected"} @@
    "TabError: inconsistent use of tabs" :> {"taberror"} @@
    "TypeError: unsupported operand" :> {"typeerror", "unsupported operand"} @@
    "ImportError: cannot import name 'add' (math_utils.py)" :> {"import", "importerror", "name"} @@
    "ModuleNotFoundError: No module named 'math_util'" :> {"modulenotfounderror", "no module named", "no module", "name"} @@
    "ModuleNotFoundError: No module named 'mathutil'" :> {"modulenotfounderror", "no module named", "no module", "name"} @@
    "NameError: name 'add' is not defined" :> {"nameerror", "name", "is not defined"} @@
    "AssertionError: assert 1 == 2" :> {"assert", "=="} @@
    "F821 undefined name 'add'" :> {"undefined name", "name"} @@
    "E   ModuleNotFoundError: No module named 'math_util'" :> {"modulenotfounderror", "no module named", "no module", "name"}

NoModuleNamed ==
    "" :> "" @@
    "SyntaxError" :> "" @@
    "IndentationError" :> "" @@
    "TabError" :> "" @@
    "TypeError" :> "" @@
    "ImportError" :> "" @@
    "ModuleNotFoundError" :> "" @@
    "NameError" :> "" @@
    "AssertionError" :> "" @@
    "SyntaxError: invalid syntax" :> "" @@
    "IndentationError: unexpected indent" :> "" @@
    "TabError: inconsistent use of tabs" :> "" @@
    "TypeError: unsupported operand" :> "" @@
    "ImportError: cannot import name 'add' (math_utils.py)" :> "" @@
    "ModuleNotFoundError: No module named 'math_util'" :> "math_util" @@
    "ModuleNotFoundError: No module named 'mathutil'" :> "mathutil" @@
    "NameError: name 'add' is not defined" :> "" @@
    "AssertionError: assert 1 == 2" :> "" @@
    "F821 undefined name 'add'" :> "" @@
    "E   ModuleNotFoundError: No module named 'math_util'" :> "math_util"

NameNotDefined ==
    "" :> "" @@
    "SyntaxError" :> "" @@
    "IndentationError" :> "" @@
    "TabError" :> "" @@
    "TypeError" :> "" @@
    "ImportError" :> "" @@
    "ModuleNotFoundError" :> "" @@
    "NameError" :> "" @@
    "AssertionError" :> "" @@
    "SyntaxError: invalid syntax" :> "" @@
    "IndentationError: unexpected indent" :> "" @@
    "TabError: inconsistent use of tabs" :> "" @@
    "TypeError: unsupported operand" :> "" @@
    "ImportError: cannot import name 'add' (math_utils.py)" :> "" @@
    "ModuleNotFoundError: No module named 'math_util'" :> "" @@
    "ModuleNotFoundError: No module named 'mathutil'" :> "" @@
    "NameError: name 'add' is not defined" :> "add" @@
    "AssertionError: assert 1 == 2" :> "" @@
    "F821 undefined name 'add'" :> "" @@
    "E   ModuleNotFoundError: No module named 'math_util'" :> ""

ErrorTypeOf ==
    "" :> "" @@
    "SyntaxError: invalid syntax" :> "SyntaxError" @@
    "IndentationError: unexpected indent" :> "IndentationError" @@
    "TabError: inconsistent use of tabs" :> "TabError" @@
    "TypeError: unsupported operand" :> "TypeError" @@
    "ImportError: cannot import name 'add' (math_utils.py)" :> "ImportError" @@
    "ModuleNotFoundError: No module named 'math_util'" :> "ModuleNotFoundError" @@
    "ModuleNotFoundError: No module named 'mathutil'" :> "ModuleNotFoundError" @@
    "NameError: name 'add' is not defined" :> "NameError" @@
    "AssertionError: assert 1 == 2" :> "AssertionError" @@
    "F821 undefined name 'add'" :> "F821 undefined name 'add'"

FileRefs ==
    "" :> <<>> @@
    "SyntaxError: invalid syntax" :> <<>> @@
    "IndentationError: unexpected indent" :> <<>> @@
    "TabError: inconsistent use of tabs" :> <<>> @@
    "TypeError: unsupported operand" :> <<>> @@
    "ImportError: cannot import name 'add' (math_utils.py)" :> <<"math_utils.py">> @@
    "ModuleNotFoundError: No module named 'math_util'" :> <<>> @@
    "ModuleNotFoundError: No module named 'mathutil'" :> <<>> @@
    "NameError: name 'add' is not defined" :> <<>> @@
    "AssertionError: assert 1 == 2" :> <<>> @@
    "F821 undefined name 'add'" :> <<>>

-----------------------------------------------------------------------------
(* Failure Records (TestFailure) *)

\* "k in text" for some keyword k of keys, text being a set of strings joined by blanks
HasAny(text, keys) == \E s \in text : KeywordsIn[s] \cap keys # {}

\* (failure.error_message + " " + failure.error_type).lower()
err_lower(failure) == {failure.error_message, failure.error_type}

\* (failure.error_message + " " + failure.error_type + " " + failure.raw_output).lower()
all_error_text(failure) == <<failure.error_message, failure.error_type, failure.raw_output>>

\* the sample of error texts: a message with the category the line-oriented
\* dialect derives from it, or a bare category (block-oriented dialect)
FailureTexts ==
    {[error_message |-> m, error_type |-> ErrorTypeOf[m]] : m \in Messages}
    \cup {[error_message |-> "", error_type |-> t] : t \in ErrorTypes}

-----------------------------------------------------------------------------
(* Bug Classifier *)

BugType == {"LINTING", "SYNTAX", "LOGIC", "TYPE_ERROR", "IMPORT", "INDENTATION", "UNKNOWN"}

_classify_bug_type(failure) ==
    LET err == err_lower(failure) IN
    IF HasAny(err, {"import", "modulenotfounderror", "no module named"}) THEN "IMPORT"
    ELSE IF HasAny(err, {"syntaxerror", "syntax error", "missing colon",
                         "unexpected eof", "invalid syntax"}) THEN "SYNTAX"
    ELSE IF HasAny(err, {"indentationerror", "indentation", "unexpected indent",
                         "unindent"}) THEN "INDENTATION"
    ELSE IF HasAny(err, {"typeerror", "type error", "not callable",
                         "unsupported operand"}) THEN "TYPE_ERROR"
    ELSE IF HasAny(err, {"unused", "lint", "flake8", "pylint", "undefined variable",
                         "undefined name"}) THEN "LINTING"
    ELSE IF HasAny(err, {"assert", "assertEqual", "expected", "actual", "!=", "=="})
         THEN "LOGIC"
    ELSE "LOGIC"

priority_first_listed == <<"IMPORT", "SYNTAX", "INDENTATION", "TYPE_ERROR",
                           "LOGIC", "LINTING", "UNKNOWN">>

priority == <<"SYNTAX", "INDENTATION", "TYPE_ERROR", "IMPORT", "LOGIC", "LINTING", "UNKNOWN">>

\* next((b for b in priority if b in bug_types), BugType.LOGIC)
most_severe(failures) ==
    LET bug_types == {_classify_bug_type(failures[i]) : i \in 1..Len(failures)}
        hits == {i \in 1..Len(priority) : priority[i] \in bug_types}
    IN  IF hits = {} THEN "LOGIC"
        ELSE priority[CHOOSE i \in hits : \A j \in hits : i <= j]

-----------------------------------------------------------------------------
(* Repository files.  The tables give the results of the file-name tests of *)
(* the source on the paths of the universe.                                 *)

Files == {"test.py", "tests/test_app.py", "math_utils.py", "app.py"}

\* paths a Failure Record can name: the files, a file that is not in the
\* repository, and the empty path of the fallback record
Paths == Files \cup {"ghost.py", ""}

\* os.path.join(repo_path, "") : the repository root directory
RootDir == "<repo>/"

RootFiles == {"test.py", "math_utils.py", "app.py"}

HiddenFromConventionWalk == {"tests/test_app.py"}

HiddenFromWalk == {}

RealModuleFiles == {"math_utils.py", "app.py"}

TestPyFiles == {"test.py", "tests/test_app.py"}

NonTestPyFiles == {"test.py", "math_utils.py", "app.py"}

TestPrefixedPaths == {"test.py", "tests/test_app.py"}

FuzzyMatch ==
    {<<"math_utils.py", "math_utils">>, <<"math_utils.py", "math_util">>, <<"app.py", "app">>}

ExactMatch ==
    {<<"math_utils.py", "math_utils">>, <<"app.py", "app">>}

NaiveMatch ==
    {<<"math_utils.py", "math_utils">>, <<"math_utils.py", "math_util">>, <<"app.py", "app">>}

LastSegment ==
    "math_utils" :> "math_utils" @@
    "math_util" :> "math_util" @@
    "mathutil" :> "mathutil" @@
    "app" :> "app" @@
    "add" :> "add" @@
    "os" :> "os"

ConventionMatch ==
    {<<"tests/test_app.py", "app.py">>}

StdlibModules == {"os"}

TestNamedFiles == {"test.py", "tests/test_app.py"}

Stem ==
    "test.py" :> "test" @@
    "tests/test_app.py" :> "test_app" @@
    "math_utils.py" :> "math_utils" @@
    "app.py" :> "app"

PyFiles == {"test.py", "tests/test_app.py", "math_utils.py", "app.py"}

-----------------------------------------------------------------------------
(* File contents: the import statements of the file, in textual order, and  *)
(* the names it defines with def or class.                                  *)

FromImport(m, n) == [kind |-> "from", module |-> m, name |-> n]

Import(m) == [kind |-> "import", module |-> m, name |-> ""]

Content(imps, defs) == [imports |-> imps, defs |-> defs]

\* os.walk lists the files of a directory in an order the file system
\* chooses, top-down: the files of the root before those of sub-directories
WalkOrders(S) ==
    {o \in [1..Cardinality(S) -> S] :
        /\ \A i, j \in DOMAIN o : i # j => o[i] # o[j]
        /\ \A i, j \in DOMAIN o : (i < j /\ o[j] \in RootFiles) => o[i] \in RootFiles}

\* the first file of the walk that belongs to S, None when there is none
FirstInWalk(order, S) ==
    LET hits == {i \in DOMAIN order : order[i] \in S}
    IN  IF hits = {} THEN None ELSE order[CHOOSE i \in hits : \A j \in hits : i <= j]

\* the first non-empty capture of a regular expression searched in the
\* concatenation of the strings of texts
FirstCapture(table, texts) ==
    LET hits == {i \in DOMAIN texts : table[texts[i]] # ""}
    IN  IF hits = {} THEN "" ELSE table[texts[CHOOSE i \in hits : \A j \in hits : i <= j]]

RECURSIVE MapModule(_)
MapModule(stmts) ==
    IF stmts = <<>> THEN <<>> ELSE <<Head(stmts).module>> \o MapModule(Tail(stmts))

\* re.findall(r"import\s+([\w.]+)", content): the word after every "import",
\* also the one inside a from-import statement
RECURSIVE ImportWords(_)
ImportWords(stmts) ==
    IF stmts = <<>> THEN <<>>
    ELSE <<IF Head(stmts).kind = "from" THEN Head(stmts).name ELSE Head(stmts).module>>
         \o ImportWords(Tail(stmts))

IsFrom(s) == s.kind = "from"

IsPlainImport(s) == s.kind = "import"

-----------------------------------------------------------------------------
(* Fault Localizer *)

_resolve_path(file_path, tree) ==
    IF file_path = "" THEN RootDir
    ELSE IF file_path \in DOMAIN tree THEN file_path
    ELSE None

SyntaxMarkers == {"indentationerror", "syntaxerror", "taberror", "unexpected indent",
                  "unindent", "invalid syntax"}

\* Strategy -1: syntax and indentation errors are in the file itself
strategy_syntax(failure, tree) ==
    IF HasAny(err_lower(failure), SyntaxMarkers)
    THEN _resolve_path(failure.file_path, tree)
    ELSE None

\* Strategy 0: ModuleNotFoundError, fix the import of the test file
strategy_module(failure, tree, order) ==
    LET text    == all_error_text(failure)
        all     == {text[i] : i \in DOMAIN text}
        missing == FirstCapture(NoModuleNamed, text)
        real    == {f \in (DOMAIN tree \cap RealModuleFiles) \ HiddenFromWalk :
                        <<f, LastSegment[missing]>> \in FuzzyMatch}
    IN  IF /\ \/ HasAny(all, {"modulenotfounderror"})
              \/ HasAny(all, {"importerror"}) /\ HasAny(all, {"no module"})
           /\ missing # ""
           /\ real # {}
        THEN IF "test.py" \in DOMAIN tree THEN "test.py"
             ELSE FirstInWalk(order, DOMAIN tree \cap TestPyFiles)
        ELSE None

\* the source_candidate of strategy 0b after the imports imps were searched
RECURSIVE source_candidate(_, _, _, _)
source_candidate(imps, cand, tree, order) ==
    IF imps = <<>> THEN cand
    ELSE LET found == {f \in DOMAIN tree : <<f, Head(imps)>> \in NaiveMatch}
             next  == IF cand = None THEN FirstInWalk(order, found)
                      ELSE IF found \cap RootFiles # {}
                           THEN FirstInWalk(order, found \cap RootFiles)
                           ELSE cand
         IN  source_candidate(Tail(imps), next, tree, order)

\* Strategy 0b: NameError in the test file (missing import)
strategy_name(failure, tree, order) ==
    LET err   == err_lower(failure)
        name  == FirstCapture(NameNotDefined, <<failure.error_message, failure.error_type>>)
        abs   == _resolve_path(failure.file_path, tree)
        stmts == IF abs \in DOMAIN tree THEN tree[abs].imports ELSE <<>>
        imps  == MapModule(SelectSeq(stmts, IsFrom)) \o ImportWords(stmts)
        cand  == source_candidate(imps, None, tree, order)
    IN  IF /\ HasAny(err, {"nameerror"}) /\ HasAny(err, {"name"})
           /\ HasAny(err, {"is not defined"})
           /\ name # ""
           /\ cand # None
           /\ name \in tree[cand].defs
        THEN abs
        ELSE None

\* Strategy 1 and 1b for the imported modules mods, in order
RECURSIVE import_match(_, _, _)
import_match(mods, tree, order) ==
    IF mods = <<>> THEN None
    ELSE LET module_name == Head(mods)
             walked == (DOMAIN tree \cap PyFiles) \ HiddenFromWalk
             exact  == {f \in walked : <<f, module_name>> \in ExactMatch}
             fuzzy  == {f \in walked \ TestNamedFiles :
                            <<f, LastSegment[module_name]>> \in FuzzyMatch}
         IN  IF module_name \in StdlibModules THEN import_match(Tail(mods), tree, order)
             ELSE IF exact # {} THEN FirstInWalk(order, exact)
             ELSE IF fuzzy # {} THEN FirstInWalk(order, fuzzy)
             ELSE import_match(Tail(mods), tree, order)

\* Strategy 1: parse the imports of the test file
strategy_imports(failure, tree, order) ==
    LET abs   == _resolve_path(failure.file_path, tree)
        stmts == IF abs \in DOMAIN tree THEN tree[abs].imports ELSE <<>>
    IN  import_match(MapModule(SelectSeq(stmts, IsFrom))
                        \o MapModule(SelectSeq(stmts, IsPlainImport)), tree, order)

\* Strategy 2: naming convention (test_foo.py -> foo.py)
strategy_convention(failure, tree, order) ==
    FirstInWalk(order, {f \in DOMAIN tree \ HiddenFromConventionWalk :
                            <<failure.file_path, f>> \in ConventionMatch})

\* _extract_file_refs: the path-like tokens of the text that exist on disk
_extract_file_refs(text, tree) ==
    LET OnDisk(p) == p \in DOMAIN tree IN SelectSeq(FileRefs[text], OnDisk)

\* Strategy 3: file references in the error message
strategy_message(failure, tree) ==
    LET file_refs == _extract_file_refs(failure.error_message, tree)
    IN  IF failure.error_message # "" /\ file_refs # <<>> THEN file_refs[1] ELSE None

\* Strategy 4: any non-test Python file of the repository
strategy_any(tree, order) ==
    FirstInWalk(order, (DOMAIN tree \cap NonTestPyFiles) \ HiddenFromWalk)

\* "if found: return found", else go on with the next strategy
OrElse(found, next) == IF found # None THEN found ELSE next

_locate_source_file_own_file_last(failure, tree, order) ==
    OrElse(strategy_module(failure, tree, order),
    OrElse(strategy_name(failure, tree, order),
    OrElse(strategy_imports(failure, tree, order),
    OrElse(strategy_convention(failure, tree, order),
    OrElse(strategy_message(failure, tree),
    OrElse(strategy_any(tree, order),
    OrElse(strategy_syntax(failure, tree),
           _resolve_path(failure.file_path, tree))))))))

\* the strategies in priority order; the first that yields a path wins
_locate_source_file(failure, tree, order) ==
    OrElse(strategy_syntax(failure, tree),
    OrElse(strategy_module(failure, tree, order),
    OrElse(strategy_name(failure, tree, order),
    OrElse(strategy_imports(failure, tree, order),
    OrElse(strategy_convention(failure, tree, order),
    OrElse(strategy_message(failure, tree),
    OrElse(strategy_any(tree, order),
           _resolve_path(failure.file_path, tree))))))))

-----------------------------------------------------------------------------
(* Fix Applier.  The Fix Oracle's answer to one request is an input: <<>>   *)
(* (call failed, empty or unusable answer) or <<c>>, c the content that     *)
(* _extract_code takes from the answer.                                     *)

OracleContents == { Content(<<FromImport("math_utils", "add")>>, {}),
                    Content(<<>>, {"add"}) }

OracleResponses == {<<>>} \cup {<<c>> : c \in OracleContents}

\* FileChange
ChangeRecord(path, original, fixed, bug, how, n) ==
    [file_path |-> path, original_content |-> original, fixed_content |-> fixed,
     bug_type |-> bug, status |-> "fixed", via |-> how, errors |-> n]

\* an operation of the run, in the order the operations happen
Event(op, file, n) == [op |-> op, file |-> file, n |-> n]

\* re.sub(r'\b' + missing + r'\b', real_module, content)
Rename(content, old, new) ==
    LET R(x) == IF x = old THEN new ELSE x
    IN  [imports |-> [i \in DOMAIN content.imports |->
                        [kind   |-> content.imports[i].kind,
                         module |-> R(content.imports[i].module),
                         name   |-> R(content.imports[i].name)]],
         defs    |-> {R(d) : d \in content.defs}]

\* the result of a Fix Applier call: the Change Record (or none), the
\* working tree after it, and the Oracle requests it made
Outcome(fix, tree, calls) == [fix |-> fix, tree |-> tree, calls |-> calls]

\* generate_fix, programmatic part: the import rename, or <<>> when it does
\* not apply
programmatic_fix(failure, source_file, tree, order) ==
    LET text    == all_error_text(failure)
        all     == {text[i] : i \in DOMAIN text}
        missing == FirstCapture(NoModuleNamed, text)
        mn_base == LastSegment[missing]
        found   == FirstInWalk(order,
                       {f \in (DOMAIN tree \cap RealModuleFiles) \ HiddenFromWalk :
                            <<f, mn_base>> \in FuzzyMatch})
        real_module == Stem[found]
        original    == tree[source_file]
        fixed       == Rename(original, mn_base, real_module)
    IN  IF /\ \/ HasAny(all, {"modulenotfounderror"})
              \/ HasAny(all, {"importerror"}) /\ HasAny(all, {"no module"})
           /\ missing # ""
           /\ source_file \in TestPrefixedPaths
           /\ found # None
           /\ real_module # mn_base
           /\ fixed # original
        THEN <<ChangeRecord(source_file, original, fixed, "IMPORT", "programmatic", 1)>>
        ELSE <<>>

\* generate_fix: one Failure Record, localized again, one Oracle request
generate_fix(failure, tree, order, response) ==
    LET source_file == _locate_source_file(failure, tree, order)
        prog        == IF source_file = None THEN <<>>
                       ELSE programmatic_fix(failure, source_file, tree, order)
    IN  IF source_file = None THEN Outcome(<<>>, tree, <<>>)
        ELSE IF prog # <<>>
             THEN Outcome(prog, [tree EXCEPT ![source_file] = prog[1].fixed_content], <<>>)
        ELSE IF source_file \notin DOMAIN tree THEN Outcome(<<>>, tree, <<>>)
        ELSE IF response = <<>> \/ response[1] = tree[source_file]
             THEN Outcome(<<>>, tree, <<Event("oracle", source_file, 1)>>)
        ELSE Outcome(<<ChangeRecord(source_file, tree[source_file], response[1],
                                    _classify_bug_type(failure), "single", 1)>>,
                     [tree EXCEPT ![source_file] = response[1]],
                     <<Event("oracle", source_file, 1)>>)

\* generate_fix_for_file: all Failure Records of a file in one Oracle request
generate_fix_for_file(failures, source_file, tree, response) ==
    IF failures = <<>> \/ source_file \notin DOMAIN tree THEN Outcome(<<>>, tree, <<>>)
    ELSE IF response = <<>> \/ response[1] = tree[source_file]
         THEN Outcome(<<>>, tree, <<Event("oracle", source_file, Len(failures))>>)
    ELSE Outcome(<<ChangeRecord(source_file, tree[source_file], response[1],
                                most_severe(failures), "batch", Len(failures))>>,
                 [tree EXCEPT ![source_file] = response[1]],
                 <<Event("oracle", source_file, Len(failures))>>)

\* file_failure_groups.setdefault(src, []).append(failure), in insertion order
RECURSIVE group_failures(_, _, _, _)
group_failures(failures, acc, tree, order) ==
    IF failures = <<>> THEN acc
    ELSE LET src == _locate_source_file(Head(failures), tree, order)
             at  == {i \in DOMAIN acc : acc[i].file = src}
             nxt == IF src = None THEN acc
                    ELSE IF at = {}
                         THEN Append(acc, [file |-> src, failures |-> <<Head(failures)>>])
                    ELSE [i \in DOMAIN acc |->
                            IF i \in at
                            THEN [acc[i] EXCEPT !.failures = Append(@, Head(failures))]
                            ELSE acc[i]]
         IN  group_failures(Tail(failures), nxt, tree, order)
-----------------------------------------------------------------------------
(* Output Interpreter.  The runner's output is a sequence of lines of       *)
(* OutputLines; the tables give what the regular expressions and substring  *)
(* tests of the source find in each line.                                   *)

\* the lines a runner's output is made of; \x1b stands for the escape character and
\* \u25cf for the bullet character
OutputLines ==
    { "FAILED tests/test_app.py::test_add - AssertionError: assert 1 == 2",
      "FAILED ../../repo/test.py::test_sub - assert 1 == 2",
      "FAILED test.py::TestMath::test_add - TypeError: unsupported operand",
      "FAILED test.py::test_add[1-2] - AssertionError: assert 3 == 4",
      "\\x1b[31mFAILED\\x1b[0m test.py::test_mul",
      "ERROR ../test.py - ModuleNotFoundError: No module named 'math_util'",
      "ERROR test.py",
      "math_utils.py:3: in <module>",
      "test.py:12: in test_add",
      "  File \"../shared/util.py\", line 7, in <module>",
      "  File \"/usr/lib/python3/site-packages/_pytest/python.py\", line 5, in importtestmodule",
      "E   IndentationError: unexpected indent",
      "____ test_add ____",
      "FAIL ../src/math.test.js",
      "  \\u25cf adds numbers",
      "    at Object.<anonymous> (src/math.js:15:7)",
      "    at run (node_modules/jest-circus/build/run.js:1:1)",
      "Test Suites: 1 failed, 1 total",
      "ReferenceError: add is not defined",
      "Command timed out after 300s" }

\* re.sub(r'\x1b\[[0-9;]*m', '', output), line by line
Clean ==
    [l \in OutputLines |->
        IF l = "\\x1b[31mFAILED\\x1b[0m test.py::test_mul"
        THEN "FAILED test.py::test_mul" ELSE l]

\* what the regular expressions of _parse_pytest_failures find in a line:
\*   failed            failed_pattern  r"FAILED\s+([\w./\\-]+)::(\w+)(?:\s*-\s*(.+))?"
\*   collect_with_msg  r"ERROR\s+([\w./\\-]+)\s+-\s+(.+)", the message stripped
\*   collect_bare      r"^ERROR\s+([\w./\\-]+)\s*$"
\*   error_type_match  r'(IndentationError|SyntaxError|ImportError|ModuleNotFoundError|NameError|TypeError)[:\s]([^\n]*)'
\*                     with the error_msg made of the match
\*   matches_1         r'File "([^"]+)", line (\d+)'
\*   matches_2         r'\n([\w./\\-]+):(\d+):', for a line that is not the first of the output
\*   header_of         the test names n with r"_{3,}\s+n\s+_{3,}" in the line
PytestLine ==
    "FAILED tests/test_app.py::test_add - AssertionError: assert 1 == 2" :>
        [ failed |-> <<[path |-> "tests/test_app.py", name |-> "test_add", msg |-> "AssertionError: assert 1 == 2"]>>,
          collect_with_msg |-> <<>>,
          collect_bare |-> <<>>,
          error_type_match |-> <<>>,
          matches_1 |-> <<>>,
          matches_2 |-> <<>>,
          header_of |-> {} ] @@
    "FAILED ../../repo/test.py::test_sub - assert 1 == 2" :>
        [ failed |-> <<[path |-> "../../repo/test.py", name |-> "test_sub", msg |-> "assert 1 == 2"]>>,
          collect_with_msg |-> <<>>,
          collect_bare |-> <<>>,
          error_type_match |-> <<>>,
          matches_1 |-> <<>>,
          matches_2 |-> <<>>,
          header_of |-> {} ] @@
    "FAILED test.py::TestMath::test_add - TypeError: unsupported operand" :>
        [ failed |-> <<[path |-> "test.py", name |-> "TestMath", msg |-> ""]>>,
          collect_with_msg |-> <<>>,
          collect_bare |-> <<>>,
          error_type_match |-> <<[error_type |-> "TypeError", error_msg |-> "TypeError: unsupported operand"]>>,
          matches_1 |-> <<>>,
          matches_2 |-> <<>>,
          header_of |-> {} ] @@
    "FAILED test.py::test_add[1-2] - AssertionError: assert 3 == 4" :>
        [ failed |-> <<[path |-> "test.py", name |-> "test_add", msg |-> ""]>>,
          collect_with_msg |-> <<>>,
          collect_bare |-> <<>>,
          error_type_match |-> <<>>,
          matches_1 |-> <<>>,
          matches_2 |-> <<>>,
          header_of |-> {} ] @@
    "FAILED test.py::test_mul" :>
        [ failed |-> <<[path |-> "test.py", name |-> "test_mul", msg |-> ""]>>,
          collect_with_msg |-> <<>>,
          collect_bare |-> <<>>,
          error_type_match |-> <<>>,
          matches_1 |-> <<>>,
          matches_2 |-> <<>>,
          header_of |-> {} ] @@
    "ERROR ../test.py - ModuleNotFoundError: No module named 'math_util'" :>
        [ failed |-> <<>>,
          collect_with_msg |-> <<[path |-> "../test.py", msg |-> "ModuleNotFoundError: No module named 'math_util'"]>>,
          collect_bare |-> <<>>,
          error_type_match |-> <<[error_type |-> "ModuleNotFoundError", error_msg |-> "ModuleNotFoundError: No module named 'math_util'"]>>,
          matches_1 |-> <<>>,
          matches_2 |-> <<>>,
          header_of |-> {} ] @@
    "ERROR test.py" :>
        [ failed |-> <<>>,
          collect_with_msg |-> <<>>,
          collect_bare |-> <<"test.py">>,
          error_type_match |-> <<>>,
          matches_1 |-> <<>>,
          matches_2 |-> <<>>,
          header_of |-> {} ] @@
    "math_utils.py:3: in <module>" :>
        [ failed |-> <<>>,
          collect_with_msg |-> <<>>,
          collect_bare |-> <<>>,
          error_type_match |-> <<>>,
          matches_1 |-> <<>>,
          matches_2 |-> <<[path |-> "math_utils.py", line |-> 3]>>,
          header_of |-> {} ] @@
    "test.py:12: in test_add" :>
        [ failed |-> <<>>,
          collect_with_msg |-> <<>>,
          collect_bare |-> <<>>,
          error_type_match |-> <<>>,
          matches_1 |-> <<>>,
          matches_2 |-> <<[path |-> "test.py", line |-> 12]>>,
          header_of |-> {} ] @@
    "  File \"../shared/util.py\", line 7, in <module>" :>
        [ failed |-> <<>>,
          collect_with_msg |-> <<>>,
          collect_bare |-> <<>>,
          error_type_match |-> <<>>,
          matches_1 |-> <<[path |-> "../shared/util.py", line |-> 7]>>,
          matches_2 |-> <<>>,
          header_of |-> {} ] @@
    "  File \"/usr/lib/python3/site-packages/_pytest/python.py\", line 5, in importtestmodule" :>
        [ failed |-> <<>>,
          collect_with_msg |-> <<>>,
          collect_bare |-> <<>>,
          error_type_match |-> <<>>,
          matches_1 |-> <<[path |-> "/usr/lib/python3/site-packages/_pytest/python.py", line |-> 5]>>,
          matches_2 |-> <<>>,
          header_of |-> {} ] @@
    "E   IndentationError: unexpected indent" :>
        [ failed |-> <<>>,
          collect_with_msg |-> <<>>,
          collect_bare |-> <<>>,
          error_type_match |-> <<[error_type |-> "IndentationError", error_msg |-> "IndentationError: unexpected indent"]>>,
          matches_1 |-> <<>>,
          matches_2 |-> <<>>,
          header_of |-> {} ] @@
    "____ test_add ____" :>
        [ failed |-> <<>>,
          collect_with_msg |-> <<>>,
          collect_bare |-> <<>>,
          error_type_match |-> <<>>,
          matches_1 |-> <<>>,
          matches_2 |-> <<>>,
          header_of |-> {"test_add"} ] @@
    "FAIL ../src/math.test.js" :>
        [ failed |-> <<>>,
          collect_with_msg |-> <<>>,
          collect_bare |-> <<>>,
          error_type_match |-> <<>>,
          matches_1 |-> <<>>,
          matches_2 |-> <<>>,
          header_of |-> {} ] @@
    "  \\u25cf adds numbers" :>
        [ failed |-> <<>>,
          collect_with_msg |-> <<>>,
          collect_bare |-> <<>>,
          error_type_match |-> <<>>,
          matches_1 |-> <<>>,
          matches_2 |-> <<>>,
          header_of |-> {} ] @@
    "    at Object.<anonymous> (src/math.js:15:7)" :>
        [ failed |-> <<>>,
          collect_with_msg |-> <<>>,
          collect_bare |-> <<>>,
          error_type_match |-> <<>>,
          matches_1 |-> <<>>,
          matches_2 |-> <<>>,
          header_of |-> {} ] @@
    "    at run (node_modules/jest-circus/build/run.js:1:1)" :>
        [ failed |-> <<>>,
          collect_with_msg |-> <<>>,
          collect_bare |-> <<>>,
          error_type_match |-> <<>>,
          matches_1 |-> <<>>,
          matches_2 |-> <<>>,
          header_of |-> {} ] @@
    "Test Suites: 1 failed, 1 total" :>
        [ failed |-> <<>>,
          collect_with_msg |-> <<>>,
          collect_bare |-> <<>>,
          error_type_match |-> <<>>,
          matches_1 |-> <<>>,
          matches_2 |-> <<>>,
          header_of |-> {} ] @@
    "ReferenceError: add is not defined" :>
        [ failed |-> <<>>,
          collect_with_msg |-> <<>>,
          collect_bare |-> <<>>,
          error_type_match |-> <<>>,
          matches_1 |-> <<>>,
          matches_2 |-> <<>>,
          header_of |-> {} ] @@
    "Command timed out after 300s" :>
        [ failed |-> <<>>,
          collect_with_msg |-> <<>>,
          collect_bare |-> <<>>,
          error_type_match |-> <<>>,
          matches_1 |-> <<>>,
          matches_2 |-> <<>>,
          header_of |-> {} ]

\* what _parse_jest_failures finds in a line:
\*   fail_match    re.search(r"FAIL\s+([\w/\\._-]+)", line)
\*   bullet        line.strip()[2:].strip() when line.strip().startswith(bullet)
\*   summary       line.strip().startswith("Test Suites:")
\*   stack_traces  r"at\s+.*?\s*\(?([\w/\\._-]+):(\d+):(\d+)\)?"
\*   keywords      which of "ReferenceError:", "TypeError:", "SyntaxError:", "Cannot find module" it holds
\*   error_tail    r"Error: (.*?)\n": what follows the first "Error: " of the line
\*   frame         r"\s*at .*? \(([\w/\\._-]+):(\d+):(\d+)\)" at the start of the line
\*   error_from    the line from its first "Error: " on
\*   frame_text    the text the frame expression matches
\*   lstrip        the line without leading white space (no line of OutputLines ends in white space)
JestLine ==
    "FAILED tests/test_app.py::test_add - AssertionError: assert 1 == 2" :>
        [ fail_match |-> <<>>,
          bullet |-> <<>>,
          summary |-> FALSE,
          stack_traces |-> <<>>,
          keywords |-> {},
          error_tail |-> <<"assert 1 == 2">>,
          frame |-> <<>>,
          error_from |-> <<"Error: assert 1 == 2">>,
          frame_text |-> <<>>,
          lstrip |-> "FAILED tests/test_app.py::test_add - AssertionError: assert 1 == 2" ] @@
    "FAILED ../../repo/test.py::test_sub - assert 1 == 2" :>
        [ fail_match |-> <<>>,
          bullet |-> <<>>,
          summary |-> FALSE,
          stack_traces |-> <<>>,
          keywords |-> {},
          error_tail |-> <<>>,
          frame |-> <<>>,
          error_from |-> <<>>,
          frame_text |-> <<>>,
          lstrip |-> "FAILED ../../repo/test.py::test_sub - assert 1 == 2" ] @@
    "FAILED test.py::TestMath::test_add - TypeError: unsupported operand" :>
        [ fail_match |-> <<>>,
          bullet |-> <<>>,
          summary |-> FALSE,
          stack_traces |-> <<>>,
          keywords |-> {"TypeError:"},
          error_tail |-> <<"unsupported operand">>,
          frame |-> <<>>,
          error_from |-> <<"Error: unsupported operand">>,
          frame_text |-> <<>>,
          lstrip |-> "FAILED test.py::TestMath::test_add - TypeError: unsupported operand" ] @@
    "FAILED test.py::test_add[1-2] - AssertionError: assert 3 == 4" :>
        [ fail_match |-> <<>>,
          bullet |-> <<>>,
          summary |-> FALSE,
          stack_traces |-> <<>>,
          keywords |-> {},
          error_tail |-> <<"assert 3 == 4">>,
          frame |-> <<>>,
          error_from |-> <<"Error: assert 3 == 4">>,
          frame_text |-> <<>>,
          lstrip |-> "FAILED test.py::test_add[1-2] - AssertionError: assert 3 == 4" ] @@
    "FAILED test.py::test_mul" :>
        [ fail_match |-> <<>>,
          bullet |-> <<>>,
          summary |-> FALSE,
          stack_traces |-> <<>>,
          keywords |-> {},
          error_tail |-> <<>>,
          frame |-> <<>>,
          error_from |-> <<>>,
          frame_text |-> <<>>,
          lstrip |-> "FAILED test.py::test_mul" ] @@
    "ERROR ../test.py - ModuleNotFoundError: No module named 'math_util'" :>
        [ fail_match |-> <<>>,
          bullet |-> <<>>,
          summary |-> FALSE,
          stack_traces |-> <<>>,
          keywords |-> {},
          error_tail |-> <<"No module named 'math_util'">>,
          frame |-> <<>>,
          error_from |-> <<"Error: No module named 'math_util'">>,
          frame_text |-> <<>>,
          lstrip |-> "ERROR ../test.py - ModuleNotFoundError: No module named 'math_util'" ] @@
    "ERROR test.py" :>
        [ fail_match |-> <<>>,
          bullet |-> <<>>,
          summary |-> FALSE,
          stack_traces |-> <<>>,
          keywords |-> {},
          error_tail |-> <<>>,
          frame |-> <<>>,
          error_from |-> <<>>,
          frame_text |-> <<>>,
          lstrip |-> "ERROR test.py" ] @@
    "math_utils.py:3: in <module>" :>
        [ fail_match |-> <<>>,
          bullet |-> <<>>,
          summary |-> FALSE,
          stack_traces |-> <<>>,
          keywords |-> {},
          error_tail |-> <<>>,
          frame |-> <<>>,
          error_from |-> <<>>,
          frame_text |-> <<>>,
          lstrip |-> "math_utils.py:3: in <module>" ] @@
    "test.py:12: in test_add" :>
        [ fail_match |-> <<>>,
          bullet |-> <<>>,
          summary |-> FALSE,
          stack_traces |-> <<>>,
          keywords |-> {},
          error_tail |-> <<>>,
          frame |-> <<>>,
          error_from |-> <<>>,
          frame_text |-> <<>>,
          lstrip |-> "test.py:12: in test_add" ] @@
    "  File \"../shared/util.py\", line 7, in <module>" :>
        [ fail_match |-> <<>>,
          bullet |-> <<>>,
          summary |-> FALSE,
          stack_traces |-> <<>>,
          keywords |-> {},
          error_tail |-> <<>>,
          frame |-> <<>>,
          error_from |-> <<>>,
          frame_text |-> <<>>,
          lstrip |-> "File \"../shared/util.py\", line 7, in <module>" ] @@
    "  File \"/usr/lib/python3/site-packages/_pytest/python.py\", line 5, in importtestmodule" :>
        [ fail_match |-> <<>>,
          bullet |-> <<>>,
          summary |-> FALSE,
          stack_traces |-> <<>>,
          keywords |-> {},
          error_tail |-> <<>>,
          frame |-> <<>>,
          error_from |-> <<>>,
          frame_text |-> <<>>,
          lstrip |-> "File \"/usr/lib/python3/site-packages/_pytest/python.py\", line 5, in importtestmodule" ] @@
    "E   IndentationError: unexpected indent" :>
        [ fail_match |-> <<>>,
          bullet |-> <<>>,
          summary |-> FALSE,
          stack_traces |-> <<>>,
          keywords |-> {},
          error_tail |-> <<"unexpected indent">>,
          frame |-> <<>>,
          error_from |-> <<"Error: unexpected indent">>,
          frame_text |-> <<>>,
          lstrip |-> "E   IndentationError: unexpected indent" ] @@
    "____ test_add ____" :>
        [ fail_match |-> <<>>,
          bullet |-> <<>>,
          summary |-> FALSE,
          stack_traces |-> <<>>,
          keywords |-> {},
          error_tail |-> <<>>,
          frame |-> <<>>,
          error_from |-> <<>>,
          frame_text |-> <<>>,
          lstrip |-> "____ test_add ____" ] @@
    "FAIL ../src/math.test.js" :>
        [ fail_match |-> <<"../src/math.test.js">>,
          bullet |-> <<>>,
          summary |-> FALSE,
          stack_traces |-> <<>>,
          keywords |-> {},
          error_tail |-> <<>>,
          frame |-> <<>>,
          error_from |-> <<>>,
          frame_text |-> <<>>,
          lstrip |-> "FAIL ../src/math.test.js" ] @@
    "  \\u25cf adds numbers" :>
        [ fail_match |-> <<>>,
          bullet |-> <<"adds numbers">>,
          summary |-> FALSE,
          stack_traces |-> <<>>,
          keywords |-> {},
          error_tail |-> <<>>,
          frame |-> <<>>,
          error_from |-> <<>>,
          frame_text |-> <<>>,
          lstrip |-> "\\u25cf adds numbers" ] @@
    "    at Object.<anonymous> (src/math.js:15:7)" :>
        [ fail_match |-> <<>>,
          bullet |-> <<>>,
          summary |-> FALSE,
          stack_traces |-> <<[path |-> "src/math.js", line |-> 15]>>,
          keywords |-> {},
          error_tail |-> <<>>,
          frame |-> <<[path |-> "src/math.js", line |-> 15]>>,
          error_from |-> <<>>,
          frame_text |-> <<"    at Object.<anonymous> (src/math.js:15:7)">>,
          lstrip |-> "at Object.<anonymous> (src/math.js:15:7)" ] @@
    "    at run (node_modules/jest-circus/build/run.js:1:1)" :>
        [ fail_match |-> <<>>,
          bullet |-> <<>>,
          summary |-> FALSE,
          stack_traces |-> <<[path |-> "node_modules/jest-circus/build/run.js", line |-> 1]>>,
          keywords |-> {},
          error_tail |-> <<>>,
          frame |-> <<[path |-> "node_modules/jest-circus/build/run.js", line |-> 1]>>,
          error_from |-> <<>>,
          frame_text |-> <<"    at run (node_modules/jest-circus/build/run.js:1:1)">>,
          lstrip |-> "at run (node_modules/jest-circus/build/run.js:1:1)" ] @@
    "Test Suites: 1 failed, 1 total" :>
        [ fail_match |-> <<>>,
          bullet |-> <<>>,
          summary |-> TRUE,
          stack_traces |-> <<>>,
          keywords |-> {},
          error_tail |-> <<>>,
          frame |-> <<>>,
          error_from |-> <<>>,
          frame_text |-> <<>>,
          lstrip |-> "Test Suites: 1 failed, 1 total" ] @@
    "ReferenceError: add is not defined" :>
        [ fail_match |-> <<>>,
          bullet |-> <<>>,
          summary |-> FALSE,
          stack_traces |-> <<>>,
          keywords |-> {"ReferenceError:"},
          error_tail |-> <<"add is not defined">>,
          frame |-> <<>>,
          error_from |-> <<"Error: add is not defined">>,
          frame_text |-> <<>>,
          lstrip |-> "ReferenceError: add is not defined" ] @@
    "Command timed out after 300s" :>
        [ fail_match |-> <<>>,
          bullet |-> <<>>,
          summary |-> FALSE,
          stack_traces |-> <<>>,
          keywords |-> {},
          error_tail |-> <<>>,
          frame |-> <<>>,
          error_from |-> <<>>,
          frame_text |-> <<>>,
          lstrip |-> "Command timed out after 300s" ]

\* substring tests on a line:
\*   collected    any(kw in line.lower() for kw in ["error", "failed", "fail", "exception"])
\*   trigger      "FAILED", "FAIL", "Error" or "error" in the line
\*   error_colon  "Error:" in the line
KeywordLine ==
    "FAILED tests/test_app.py::test_add - AssertionError: assert 1 == 2" :>
        [ collected |-> TRUE,
          trigger |-> TRUE,
          error_colon |-> TRUE ] @@
    "FAILED ../../repo/test.py::test_sub - assert 1 == 2" :>
        [ collected |-> TRUE,
          trigger |-> TRUE,
          error_colon |-> FALSE ] @@
    "FAILED test.py::TestMath::test_add - TypeError: unsupported operand" :>
        [ collected |-> TRUE,
          trigger |-> TRUE,
          error_colon |-> TRUE ] @@
    "FAILED test.py::test_add[1-2] - AssertionError: assert 3 == 4" :>
        [ collected |-> TRUE,
          trigger |-> TRUE,
          error_colon |-> TRUE ] @@
    "FAILED test.py::test_mul" :>
        [ collected |-> TRUE,
          trigger |-> TRUE,
          error_colon |-> FALSE ] @@
    "ERROR ../test.py - ModuleNotFoundError: No module named 'math_util'" :>
        [ collected |-> TRUE,
          trigger |-> TRUE,
          error_colon |-> TRUE ] @@
    "ERROR test.py" :>
        [ collected |-> TRUE,
          trigger |-> FALSE,
          error_colon |-> FALSE ] @@
    "math_utils.py:3: in <module>" :>
        [ collected |-> FALSE,
          trigger |-> FALSE,
          error_colon |-> FALSE ] @@
    "test.py:12: in test_add" :>
        [ collected |-> FALSE,
          trigger |-> FALSE,
          error_colon |-> FALSE ] @@
    "  File \"../shared/util.py\", line 7, in <module>" :>
        [ collected |-> FALSE,
          trigger |-> FALSE,
          error_colon |-> FALSE ] @@
    "  File \"/usr/lib/python3/site-packages/_pytest/python.py\", line 5, in importtestmodule" :>
        [ collected |-> FALSE,
          trigger |-> FALSE,
          error_colon |-> FALSE ] @@
    "E   IndentationError: unexpected indent" :>
        [ collected |-> TRUE,
          trigger |-> TRUE,
          error_colon |-> TRUE ] @@
    "____ test_add ____" :>
        [ collected |-> FALSE,
          trigger |-> FALSE,
          error_colon |-> FALSE ] @@
    "FAIL ../src/math.test.js" :>
        [ collected |-> TRUE,
          trigger |-> TRUE,
          error_colon |-> FALSE ] @@
    "  \\u25cf adds numbers" :>
        [ collected |-> FALSE,
          trigger |-> FALSE,
          error_colon |-> FALSE ] @@
    "    at Object.<anonymous> (src/math.js:15:7)" :>
        [ collected |-> FALSE,
          trigger |-> FALSE,
          error_colon |-> FALSE ] @@
    "    at run (node_modules/jest-circus/build/run.js:1:1)" :>
        [ collected |-> FALSE,
          trigger |-> FALSE,
          error_colon |-> FALSE ] @@
    "Test Suites: 1 failed, 1 total" :>
        [ collected |-> TRUE,
          trigger |-> FALSE,
          error_colon |-> FALSE ] @@
    "ReferenceError: add is not defined" :>
        [ collected |-> TRUE,
          trigger |-> TRUE,
          error_colon |-> TRUE ] @@
    "Command timed out after 300s" :>
        [ collected |-> FALSE,
          trigger |-> FALSE,
          error_colon |-> FALSE ]

\* the paths found in OutputLines:
\*   stripped         re.sub(r'^(\.\./)+', '', raw_path)
\*   relpath          os.path.relpath(os.path.join(repo_path, path), repo_path)
\*   basename         os.path.basename(file_path)
\*   isabs            os.path.isabs(path)
\*   runner_internal  'site-packages', '<frozen' or 'lib/python' in the path
\*   jest_internal    "node_modules", "internal/" or "jest-circus" in the path
PathFacts ==
    "tests/test_app.py" :>
        [ stripped |-> "tests/test_app.py",
          relpath |-> "tests/test_app.py",
          basename |-> "test_app.py",
          isabs |-> FALSE,
          runner_internal |-> FALSE,
          jest_internal |-> FALSE ] @@
    "../../repo/test.py" :>
        [ stripped |-> "repo/test.py",
          relpath |-> "../../repo/test.py",
          basename |-> "test.py",
          isabs |-> FALSE,
          runner_internal |-> FALSE,
          jest_internal |-> FALSE ] @@
    "test.py" :>
        [ stripped |-> "test.py",
          relpath |-> "test.py",
          basename |-> "test.py",
          isabs |-> FALSE,
          runner_internal |-> FALSE,
          jest_internal |-> FALSE ] @@
    "../test.py" :>
        [ stripped |-> "test.py",
          relpath |-> "../test.py",
          basename |-> "test.py",
          isabs |-> FALSE,
          runner_internal |-> FALSE,
          jest_internal |-> FALSE ] @@
    "math_utils.py" :>
        [ stripped |-> "math_utils.py",
          relpath |-> "math_utils.py",
          basename |-> "math_utils.py",
          isabs |-> FALSE,
          runner_internal |-> FALSE,
          jest_internal |-> FALSE ] @@
    "../shared/util.py" :>
        [ stripped |-> "shared/util.py",
          relpath |-> "../shared/util.py",
          basename |-> "util.py",
          isabs |-> FALSE,
          runner_internal |-> FALSE,
          jest_internal |-> FALSE ] @@
    "/usr/lib/python3/site-packages/_pytest/python.py" :>
        [ stripped |-> "/usr/lib/python3/site-packages/_pytest/python.py",
          relpath |-> "/usr/lib/python3/site-packages/_pytest/python.py",
          basename |-> "python.py",
          isabs |-> TRUE,
          runner_internal |-> TRUE,
          jest_internal |-> FALSE ] @@
    "../src/math.test.js" :>
        [ stripped |-> "src/math.test.js",
          relpath |-> "../src/math.test.js",
          basename |-> "math.test.js",
          isabs |-> FALSE,
          runner_internal |-> FALSE,
          jest_internal |-> FALSE ] @@
    "src/math.js" :>
        [ stripped |-> "src/math.js",
          relpath |-> "src/math.js",
          basename |-> "math.js",
          isabs |-> FALSE,
          runner_internal |-> FALSE,
          jest_internal |-> FALSE ] @@
    "node_modules/jest-circus/build/run.js" :>
        [ stripped |-> "node_modules/jest-circus/build/run.js",
          relpath |-> "node_modules/jest-circus/build/run.js",
          basename |-> "run.js",
          isabs |-> FALSE,
          runner_internal |-> FALSE,
          jest_internal |-> TRUE ] @@
    "repo/test.py" :>
        [ stripped |-> "repo/test.py",
          relpath |-> "repo/test.py",
          basename |-> "test.py",
          isabs |-> FALSE,
          runner_internal |-> FALSE,
          jest_internal |-> FALSE ] @@
    "shared/util.py" :>
        [ stripped |-> "shared/util.py",
          relpath |-> "shared/util.py",
          basename |-> "util.py",
          isabs |-> FALSE,
          runner_internal |-> FALSE,
          jest_internal |-> FALSE ] @@
    "src/math.test.js" :>
        [ stripped |-> "src/math.test.js",
          relpath |-> "src/math.test.js",
          basename |-> "math.test.js",
          isabs |-> FALSE,
          runner_internal |-> FALSE,
          jest_internal |-> FALSE ]

\* re.search(re.escape(basename) + r":(\d+):", line): <<line, basename>> -> number
LineRef ==
    <<"math_utils.py:3: in <module>", "math_utils.py">> :> 3 @@
    <<"test.py:12: in test_add", "test.py">> :> 12 @@
    <<"    at Object.<anonymous> (src/math.js:15:7)", "math.js">> :> 15 @@
    <<"    at run (node_modules/jest-circus/build/run.js:1:1)", "run.js">> :> 1

\* error messages: ":" in error_msg, and error_msg.split(":")[0]
MessageFacts ==
    "AssertionError: assert 1 == 2" :>
        [ has_colon |-> TRUE,
          before_colon |-> "AssertionError" ] @@
    "assert 1 == 2" :>
        [ has_colon |-> FALSE,
          before_colon |-> "assert 1 == 2" ] @@
    "" :>
        [ has_colon |-> FALSE,
          before_colon |-> "" ] @@
    "TypeError: unsupported operand" :>
        [ has_colon |-> TRUE,
          before_colon |-> "TypeError" ] @@
    "ModuleNotFoundError: No module named 'math_util'" :>
        [ has_colon |-> TRUE,
          before_colon |-> "ModuleNotFoundError" ] @@
    "IndentationError: unexpected indent" :>
        [ has_colon |-> TRUE,
          before_colon |-> "IndentationError" ] @@
    "unsupported operand" :>
        [ has_colon |-> FALSE,
          before_colon |-> "unsupported operand" ] @@
    "assert 3 == 4" :>
        [ has_colon |-> FALSE,
          before_colon |-> "assert 3 == 4" ] @@
    "No module named 'math_util'" :>
        [ has_colon |-> FALSE,
          before_colon |-> "No module named 'math_util'" ] @@
    "unexpected indent" :>
        [ has_colon |-> FALSE,
          before_colon |-> "unexpected indent" ] @@
    "add is not defined" :>
        [ has_colon |-> FALSE,
          before_colon |-> "add is not defined" ]


-----------------------------------------------------------------------------
(* Dialect parsers *)

\* TestFailure; text is kept as the sequence of its lines ("" is <<>>), a
\* formatted message as the sequence of its parts, and line_number None is 0
TestFailure(test_name, file_path, error_message, error_type, line_number, raw_output) ==
    [test_name |-> test_name, file_path |-> file_path, error_message |-> error_message,
     error_type |-> error_type, line_number |-> line_number, raw_output |-> raw_output]

NoLine == 0

\* a string as text
Text(s) == IF s = "" THEN <<>> ELSE <<s>>

RECURSIVE Concat(_)
Concat(lists) == IF lists = <<>> THEN <<>> ELSE Head(lists) \o Concat(Tail(lists))

Reversed(s) == [i \in 1..Len(s) |-> s[Len(s) + 1 - i]]

\* the positions of s, in order, whose element satisfies Test
Positions(s, Test(_)) ==
    LET RECURSIVE From(_)
        From(i) == IF i > Len(s) THEN <<>>
                   ELSE (IF Test(s[i]) THEN <<i>> ELSE <<>>) \o From(i + 1)
    IN  From(1)

\* error_msg.split(":")[0] if ":" in error_msg else otherwise
split_colon(error_msg, otherwise) ==
    IF MessageFacts[error_msg].has_colon THEN MessageFacts[error_msg].before_colon
    ELSE otherwise

\* the line number searched after the "____ test_name ____" header
header_line_no(lines, test_name, file_path) ==
    LET IsHeader(l) == test_name \in PytestLine[l].header_of
        headers     == Positions(lines, IsHeader)
        basename    == PathFacts[file_path].basename
        refs        == {j \in DOMAIN lines : /\ headers # <<>> /\ j > headers[1]
                                             /\ <<lines[j], basename>> \in DOMAIN LineRef}
    IN  IF refs = {} THEN NoLine
        ELSE LineRef[<<lines[CHOOSE j \in refs : \A k \in refs : j <= k], basename>>]

\* for match in failed_pattern.finditer(output)
failed_records(lines) ==
    LET found == Concat([i \in DOMAIN lines |-> PytestLine[lines[i]].failed])
    IN  [k \in DOMAIN found |->
            LET file_path == PathFacts[found[k].path].stripped
            IN  TestFailure(found[k].name, file_path, Text(found[k].msg),
                            split_colon(found[k].msg, found[k].msg),
                            header_line_no(lines, found[k].name, file_path), lines)]

\* for match in collect_with_msg.finditer(output)
collect_with_msg_records(lines) ==
    LET found == Concat([i \in DOMAIN lines |-> PytestLine[lines[i]].collect_with_msg])
    IN  [k \in DOMAIN found |->
            TestFailure("(collection error)", PathFacts[found[k].path].stripped,
                        Text(found[k].msg), split_colon(found[k].msg, "CollectionError"),
                        NoLine, lines)]

\* traceback_locs = matches_1 + matches_2
traceback_locs(lines) ==
    Concat([i \in DOMAIN lines |-> PytestLine[lines[i]].matches_1])
    \o Concat([i \in DOMAIN lines |->
                  IF i > 1 THEN PytestLine[lines[i]].matches_2 ELSE <<>>])

\* for match in collect_bare.finditer(output); exists is the set of paths p
\* for which os.path.exists(os.path.join(repo_path, p)) holds
collect_bare_records(lines, exists) ==
    LET found  == Concat([i \in DOMAIN lines |-> PytestLine[lines[i]].collect_bare])
        parsed_collect_files ==
            {r.file_path : r \in {collect_with_msg_records(lines)[k] :
                                      k \in DOMAIN collect_with_msg_records(lines)}}
        HasType(l) == PytestLine[l].error_type_match # <<>>
        typed  == Positions(lines, HasType)
        locs   == Reversed(traceback_locs(lines))
        InRepo(loc) == ~PathFacts[loc.path].runner_internal /\ loc.path \in exists
        hits   == Positions(locs, InRepo)
        Record(raw_path) ==
            LET file_path == PathFacts[raw_path].stripped
            IN  IF file_path \in parsed_collect_files THEN <<>>
                ELSE <<TestFailure(
                         "(collection error)",
                         IF hits = <<>> THEN file_path
                         ELSE PathFacts[locs[hits[1]].path].relpath,
                         IF typed = <<>> THEN <<"Collection error in", file_path>>
                         ELSE <<PytestLine[lines[typed[1]]].error_type_match[1].error_msg>>,
                         IF typed = <<>> THEN "CollectionError"
                         ELSE PytestLine[lines[typed[1]]].error_type_match[1].error_type,
                         IF hits = <<>> THEN NoLine ELSE locs[hits[1]].line,
                         lines)>>
    IN  Concat([k \in DOMAIN found |-> Record(found[k])])

_parse_pytest_failures(lines, exists) ==
    failed_records(lines) \o collect_with_msg_records(lines)
    \o collect_bare_records(lines, exists)

\* error_block: the lines after the bullet up to the next bullet or summary
RECURSIVE error_block(_, _)
error_block(lines, j) ==
    IF j > Len(lines) \/ JestLine[lines[j]].bullet # <<>> \/ JestLine[lines[j]].summary
    THEN <<>>
    ELSE <<lines[j]>> \o error_block(lines, j + 1)

\* "\n".join(error_block).strip()
error_detail(block) ==
    IF block = <<>> THEN <<>> ELSE <<JestLine[block[1]].lstrip>> \o Tail(block)

\* current_file when line i is read: the last "FAIL <path>" up to it
current_file(lines, i) ==
    LET fails == {j \in 1..i : JestLine[lines[j]].fail_match # <<>>}
    IN  IF fails = {} THEN <<>>
        ELSE JestLine[lines[CHOOSE j \in fails : \A k \in fails : k <= j]].fail_match

jest_error_type(block) ==
    LET found == UNION {JestLine[block[k]].keywords : k \in DOMAIN block}
    IN  IF "ReferenceError:" \in found THEN "ReferenceError"
        ELSE IF "TypeError:" \in found THEN "TypeError"
        ELSE IF "SyntaxError:" \in found THEN "SyntaxError"
        ELSE IF "Cannot find module" \in found THEN "ModuleNotFoundError"
        ELSE "AssertionError"

\* the record of the bullet at line i
bullet_record(lines, i) ==
    LET block  == error_block(lines, i + 1)
        frames == Concat([k \in DOMAIN block |-> JestLine[block[k]].stack_traces])
        Own(frame) == ~PathFacts[frame.path].jest_internal
        own    == Positions(frames, Own)
        actual_file == IF own # <<>> THEN <<frames[own[1]].path>>
                       ELSE current_file(lines, i)
    IN  TestFailure(JestLine[lines[i]].bullet[1],
                    IF actual_file = <<>> THEN "(unknown)" ELSE actual_file[1],
                    error_detail(block), jest_error_type(block),
                    IF own # <<>> THEN frames[own[1]].line ELSE NoLine,
                    error_detail(block))

\* re.finditer(r"Error: (.*?)\n\s*at .*? \(([\w/\\._-]+):(\d+):(\d+)\)", output)
RECURSIVE vitest_records(_, _)
vitest_records(lines, k) ==
    IF k >= Len(lines) THEN <<>>
    ELSE IF JestLine[lines[k]].error_tail # <<>> /\ JestLine[lines[k + 1]].frame # <<>>
         THEN <<TestFailure("(vitest error)", JestLine[lines[k + 1]].frame[1].path,
                            Text(JestLine[lines[k]].error_tail[1]),
                            split_colon(JestLine[lines[k]].error_tail[1], "Error"),
                            JestLine[lines[k + 1]].frame[1].line,
                            JestLine[lines[k]].error_from
                                \o JestLine[lines[k + 1]].frame_text)>>
              \o vitest_records(lines, k + 2)
    ELSE vitest_records(lines, k + 1)

_parse_jest_failures(lines) ==
    LET IsBullet(l) == JestLine[l].bullet # <<>>
        bullets  == Positions(lines, IsBullet)
        failures == [k \in DOMAIN bullets |-> bullet_record(lines, bullets[k])]
    IN  IF failures = <<>> /\ \E i \in DOMAIN lines : KeywordLine[lines[i]].error_colon
        THEN vitest_records(lines, 1)
        ELSE failures

\* error_lines[:10]
first_ten(error_lines) ==
    SubSeq(error_lines, 1, IF Len(error_lines) < 10 THEN Len(error_lines) ELSE 10)

_parse_generic_failures(lines) ==
    LET Collected(l) == KeywordLine[l].collected
        at           == Positions(lines, Collected)
        error_lines  == [k \in DOMAIN at |-> lines[at[k]]]
    IN  IF error_lines = <<>> THEN <<>>
        ELSE <<TestFailure("(generic failure)", "", first_ten(error_lines),
                           "GenericError", NoLine, lines)>>

_parse_failures(raw, languages, exists) ==
    LET clean_output == [i \in DOMAIN raw |-> Clean[raw[i]]]
        structured ==
            (IF "python" \in languages
             THEN _parse_pytest_failures(clean_output, exists) ELSE <<>>)
            \o (IF "javascript" \in languages \/ "typescript" \in languages
                THEN _parse_jest_failures(clean_output) ELSE <<>>)
    IN  IF structured = <<>> /\ \E i \in DOMAIN raw : KeywordLine[clean_output[i]].trigger
        THEN _parse_generic_failures(clean_output)
        ELSE structured


\* languages of the repository analysis
Hints == { {}, {"python"}, {"javascript"}, {"typescript"}, {"python", "javascript"} }


-----------------------------------------------------------------------------
(* Run State *)

Failure(path, message, raw) ==
    [file_path |-> path, error_message |-> message, error_type |-> ErrorTypeOf[message],
     raw_output |-> raw]

\* RunSummary()
NewSummary ==
    [total_failures_detected |-> 0, total_fixes_applied |-> 0, cicd_status |-> "unknown",
     iterations |-> <<>>, all_changes |-> <<>>, end_time |-> FALSE]

\* IterationResult
IterationResult(number, before, after, applied, ok) ==
    [iteration_number |-> number, failures_before |-> before, failures_after |-> after,
     fixes_applied |-> applied, status |-> IF ok THEN "success" ELSE "failed"]

\* _finalize_summary: the timing fields of the summary are set
_finalize_summary(s) == [s EXCEPT !.end_time = TRUE]

\* the repositories a run starts from: the working tree after the clone and
\* the Failure Records its tests can report
Scenarios ==
    { \* a source file with an undefined name and a bad indentation
      [tree  |-> ( "test.py"       :> Content(<<FromImport("math_utils", "add")>>, {})
                @@ "math_utils.py" :> Content(<<>>, {}) ),
       suite |-> { Failure("test.py", "NameError: name 'add' is not defined", ""),
                   Failure("math_utils.py", "IndentationError: unexpected indent", "") }],
      \* a test that imports the module under a wrong name
      [tree  |-> ( "test.py"       :> Content(<<FromImport("math_util", "add")>>, {})
                @@ "math_utils.py" :> Content(<<>>, {"add"}) ),
       suite |-> { Failure("test.py", "ModuleNotFoundError: No module named 'math_util'", ""),
                   Failure("test.py", "AssertionError: assert 1 == 2", "") }] }

\* the lists of at most n elements of S
RECURSIVE ListsUpTo(_, _)
ListsUpTo(S, n) ==
    IF n = 0 THEN {<<>>}
    ELSE LET shorter == ListsUpTo(S, n - 1)
         IN  shorter \cup {Append(l, x) : l \in {s \in shorter : Len(s) = n - 1}, x \in S}

\* the lists of distinct elements of S
DistinctLists(S) ==
    {l \in ListsUpTo(S, Cardinality(S)) : \A i, j \in DOMAIN l : i # j => l[i] # l[j]}

\* what run_tests can return: the exit status of the runner and the
\* Failure Records parsed from its output, each test reported at most once
TestResults == [success : BOOLEAN, failures : DistinctLists(suite)]

\* _run_cmd, "except subprocess.TimeoutExpired"
TimedOut == [success |-> FALSE, output |-> <<"Command timed out after 300s">>]

\* run_tests on what _run_cmd returned
run_tests(result, languages) ==
    [success |-> result.success, failures |-> _parse_failures(result.output, languages, {})]

\* a test execution: its result and how the command ended
TestRuns ==
    {[result |-> r, ended |-> ""] : r \in TestResults}
    \cup {[result |-> run_tests(TimedOut, languages), ended |-> "timeout"] : languages \in Hints}

\* commit_changes: the commit is made unless nothing is staged and no file
\* is untracked; the committed tree is returned
commit_changes(tree, committed, files, untracked) ==
    LET staged == [f \in DOMAIN committed |-> IF f \in files THEN tree[f] ELSE committed[f]]
    IN  IF staged = committed /\ ~untracked THEN committed ELSE staged

\* whether commit_changes makes a commit
commit_made(tree, committed, files, untracked) ==
    ~( [f \in DOMAIN committed |-> IF f \in files THEN tree[f] ELSE committed[f]] = committed
       /\ ~untracked )

CIResults == {"passed", "failed", "unknown"}

-----------------------------------------------------------------------------
(* Agent.run *)

\* the except branch of Agent.run
AgentFailed ==
    /\ events' = Append(events, Event("error", "", 0))
    /\ summary' = _finalize_summary([summary EXCEPT !.cicd_status = "failed"])
    /\ pc' = "done"

\* Phases 1-4: clone, analyze, install dependencies, create the branch
AgentSetup ==
    /\ mode = "agent" /\ pc = "clone"
    /\ \E raised \in BOOLEAN :
          IF raised THEN AgentFailed
          ELSE pc' = "initial_test" /\ UNCHANGED <<summary, events>>
    /\ UNCHANGED <<mode, max_iterations, suite, test_result, iteration, failures_before,
                   groups, tried, fixes, all_changes, head, fsVars, clsVars, locVars, unitVars, runVars>>

\* Phase 5: initial test run
AgentInitialTest ==
    /\ mode = "agent" /\ pc = "initial_test"
    /\ \E run \in TestRuns : \E result \in {run.result} :
          /\ test_result' = result
          /\ events' = Append(events, Event("test", run.ended, Len(result.failures)))
          /\ IF result.success
             THEN /\ summary' = _finalize_summary([summary EXCEPT !.cicd_status = "passed"])
                  /\ pc' = "done"
                  /\ UNCHANGED iteration
             ELSE /\ summary' = [summary EXCEPT
                                    !.total_failures_detected = Len(result.failures)]
                  /\ iteration' = 1
                  /\ pc' = "loop"
    /\ UNCHANGED <<mode, max_iterations, suite, failures_before, groups, tried, fixes,
                   all_changes, head, fsVars, clsVars, locVars, unitVars, runVars>>

iteration_range_one_more(n) == 1..(n + 1)

\* range(1, settings.max_iterations + 1)
iteration_range(n) == 1..n

\* Phase 6, head of the loop: budget, break on no failures, grouping
AgentLoop ==
    /\ mode = "agent" /\ pc = "loop"
    /\ IF iteration \notin iteration_range(max_iterations) \/ test_result.failures = <<>>
       THEN /\ pc' = "publish"
            /\ UNCHANGED <<failures_before, groups, fixes>>
       ELSE /\ failures_before' = Len(test_result.failures)
            /\ groups' = group_failures(test_result.failures, <<>>, repo, walk_order)
            /\ fixes' = <<>>
            /\ pc' = "fix_groups"
    /\ UNCHANGED <<mode, max_iterations, suite, test_result, iteration, tried, all_changes,
                   summary, events, head, fsVars, clsVars, locVars, unitVars, runVars>>

\* the events of one Fix Applier call for the first group: the group when
\* its processing starts, the Oracle requests of the call, the fix
call_log(out) ==
    (IF tried = 0
     THEN <<Event("group", Head(groups).file, Len(Head(groups).failures))>> ELSE <<>>)
    \o out.calls
    \o [i \in DOMAIN out.fix |-> Event("fix", out.fix[i].file_path, 1)]

\* Phase 6, "for failure in file_failures: fix = generate_fix(...); if fix:
\* break", one call
AgentTryRecord ==
    /\ mode = "agent" /\ pc = "fix_groups" /\ groups # <<>>
    /\ tried < Len(Head(groups).failures)
    /\ \E response \in OracleResponses :
       \E out \in {generate_fix(Head(groups).failures[tried + 1], repo, walk_order,
                                response)} :
          /\ repo' = out.tree
          /\ events' = events \o call_log(out)
          /\ IF out.fix # <<>>
             THEN fixes' = fixes \o out.fix /\ groups' = Tail(groups) /\ tried' = 0
             ELSE tried' = tried + 1 /\ UNCHANGED <<fixes, groups>>
    /\ UNCHANGED <<mode, pc, max_iterations, suite, test_result, iteration, failures_before,
                   all_changes, summary, head, walk_order, clsVars, locVars, unitVars, runVars>>

\* Phase 6, "if not fix: fix = generate_fix_for_file(file_failures, ...)"
AgentTryFile ==
    /\ mode = "agent" /\ pc = "fix_groups" /\ groups # <<>>
    /\ tried = Len(Head(groups).failures)
    /\ \E response \in OracleResponses :
       \E out \in {generate_fix_for_file(Head(groups).failures, Head(groups).file, repo,
                                         response)} :
          /\ repo' = out.tree
          /\ events' = events \o call_log(out)
          /\ fixes' = fixes \o out.fix
    /\ groups' = Tail(groups) /\ tried' = 0
    /\ UNCHANGED <<mode, pc, max_iterations, suite, test_result, iteration, failures_before,
                   all_changes, summary, head, walk_order, clsVars, locVars, unitVars, runVars>>

\* Phase 6, end of the iteration: bookkeeping and re-run of the tests
AgentRetest ==
    /\ mode = "agent" /\ pc = "fix_groups" /\ groups = <<>>
    /\ all_changes' = all_changes \o fixes
    /\ \E run \in TestRuns : \E result \in {run.result} :
          /\ test_result' = result
          /\ events' = Append(events, Event("test", run.ended, Len(result.failures)))
          /\ summary' = [summary EXCEPT
                !.total_fixes_applied = @ + Len(fixes),
                !.iterations = Append(@, IterationResult(iteration, failures_before,
                                   Len(result.failures), fixes, result.success))]
          /\ IF result.success
             THEN pc' = "publish" /\ UNCHANGED iteration
             ELSE pc' = "loop" /\ iteration' = iteration + 1
    /\ UNCHANGED <<mode, max_iterations, suite, failures_before, groups, tried, fixes, head,
                   fsVars, clsVars, locVars, unitVars, runVars>>

\* Phase 7: commit and push
AgentPublish ==
    /\ mode = "agent" /\ pc = "publish"
    /\ IF all_changes = <<>>
       THEN pc' = "monitor" /\ UNCHANGED <<summary, events, head>>
       ELSE \E raised \in BOOLEAN, push_success \in BOOLEAN,
               untracked \in (IF repo = head THEN BOOLEAN ELSE {FALSE}) :
               IF raised
               THEN AgentFailed /\ UNCHANGED head
               ELSE /\ head' = commit_changes(repo, head, DOMAIN repo, untracked)
                    /\ events' = events
                         \o (IF commit_made(repo, head, DOMAIN repo, untracked)
                             THEN <<Event("commit", "-A", Len(all_changes))>> ELSE <<>>)
                         \o <<Event("push", "", IF push_success THEN 1 ELSE 0)>>
                    /\ pc' = "monitor"
                    /\ UNCHANGED summary
    /\ UNCHANGED <<mode, max_iterations, suite, test_result, iteration, failures_before,
                   groups, tried, fixes, all_changes, fsVars, clsVars, locVars, unitVars, runVars>>

\* Phase 8 and finalization: CI/CD status, summary.all_changes, timing
AgentMonitor ==
    /\ mode = "agent" /\ pc = "monitor"
    /\ \E raised \in BOOLEAN, has_workflows \in BOOLEAN, cicd_result \in CIResults :
          IF raised
          THEN AgentFailed
          ELSE /\ (~(has_workflows /\ all_changes # <<>>) => cicd_result = "unknown")
               /\ summary' = _finalize_summary([summary EXCEPT
                     !.cicd_status = IF has_workflows /\ all_changes # <<>> THEN cicd_result
                                     ELSE IF test_result.success THEN "passed" ELSE "failed",
                     !.all_changes = all_changes])
               /\ events' = IF has_workflows /\ all_changes # <<>>
                            THEN Append(events, Event("monitor", "", 0)) ELSE events
               /\ pc' = "done"
    /\ UNCHANGED <<mode, max_iterations, suite, test_result, iteration, failures_before,
                   groups, tried, fixes, all_changes, head, fsVars, clsVars, locVars, unitVars, runVars>>

-----------------------------------------------------------------------------
(* Graph workflow: clone -> git_branch -> test -> {pr | fix -> test} ->     *)
(* pr -> monitor -> END                                                     *)

\* a node raised: the workflow stops, no later node runs
GraphAborted == pc' = "aborted"

route_after_test_off_by_one(success, current, max_iters) ==
    IF success THEN "pr"
    ELSE IF current > max_iters THEN "pr"
    ELSE "fix"

\* a route that leaves the loop one round before the budget is spent
route_after_test_one_round_short(success, current, max_iters) ==
    IF success THEN "pr"
    ELSE IF current + 1 >= max_iters THEN "pr"
    ELSE "fix"

route_after_test(success, current, max_iters) ==
    IF success THEN "pr"
    ELSE IF current >= max_iters THEN "pr"
    ELSE "fix"

clone_node ==
    /\ mode = "graph" /\ pc = "clone"
    /\ \E raised \in BOOLEAN : IF raised THEN GraphAborted ELSE pc' = "git_branch"
    /\ UNCHANGED <<mode, max_iterations, suite, test_result, iteration, failures_before,
                   groups, tried, fixes, all_changes, summary, events, head, fsVars, clsVars,
                   locVars, unitVars, runVars>>

git_branch_node ==
    /\ mode = "graph" /\ pc = "git_branch"
    /\ \E raised \in BOOLEAN : IF raised THEN GraphAborted ELSE pc' = "test"
    /\ UNCHANGED <<mode, max_iterations, suite, test_result, iteration, failures_before,
                   groups, tried, fixes, all_changes, summary, events, head, fsVars, clsVars,
                   locVars, unitVars, runVars>>

\* test_node, followed by the conditional edge route_after_test
test_node ==
    /\ mode = "graph" /\ pc = "test"
    /\ \E run \in TestRuns : \E result \in {run.result} :
          /\ test_result' = result
          /\ events' = Append(events, Event("test", run.ended, Len(result.failures)))
          /\ summary' = IF iteration > 0
                        THEN [summary EXCEPT !.iterations =
                                Append(@, IterationResult(iteration, failures_before,
                                              Len(result.failures), fixes, result.success))]
                        ELSE summary
          /\ pc' = route_after_test(result.success, iteration, max_iterations)
    /\ UNCHANGED <<mode, max_iterations, suite, iteration, failures_before, groups, tried, fixes,
                   all_changes, head, fsVars, clsVars, locVars, unitVars, runVars>>

\* fix_node, up to the grouping of the failures
fix_node_start ==
    /\ mode = "graph" /\ pc = "fix"
    /\ groups' = group_failures(test_result.failures, <<>>, repo, walk_order)
    /\ fixes' = <<>>
    /\ pc' = "fix_groups"
    /\ UNCHANGED <<mode, max_iterations, suite, test_result, iteration, failures_before,
                   tried, all_changes, summary, events, head, fsVars, clsVars, locVars, unitVars, runVars>>

\* fix_node, "if fix: fixes.append(fix); commit_changes(..., [fix.file_path])"
\* for the outcome out of a Fix Applier call, with the events log of the call
fix_node_commit(out, log) ==
    IF out.fix = <<>>
    THEN events' = log /\ UNCHANGED <<fixes, head, pc>>
    ELSE \E raised \in BOOLEAN :
            IF raised
            THEN GraphAborted /\ events' = log /\ UNCHANGED <<fixes, head>>
            ELSE /\ fixes' = fixes \o out.fix
                 /\ head' = commit_changes(out.tree, head, {out.fix[1].file_path}, FALSE)
                 /\ events' = Append(log, Event("commit", out.fix[1].file_path, 1))
                 /\ UNCHANGED pc

\* fix_node, "for failure in file_failures: fix = generate_fix(...); if fix:
\* break", one call
fix_node_try_record ==
    /\ mode = "graph" /\ pc = "fix_groups" /\ groups # <<>>
    /\ tried < Len(Head(groups).failures)
    /\ \E response \in OracleResponses :
       \E out \in {generate_fix(Head(groups).failures[tried + 1], repo, walk_order,
                                response)} :
          /\ repo' = out.tree
          /\ fix_node_commit(out, events \o call_log(out))
          /\ IF out.fix # <<>>
             THEN groups' = Tail(groups) /\ tried' = 0
             ELSE tried' = tried + 1 /\ UNCHANGED groups
    /\ UNCHANGED <<mode, max_iterations, suite, test_result, iteration, failures_before,
                   all_changes, summary, walk_order, clsVars, locVars, unitVars, runVars>>

\* fix_node, "if not fix: fix = generate_fix_for_file(file_failures, ...)"
fix_node_try_file ==
    /\ mode = "graph" /\ pc = "fix_groups" /\ groups # <<>>
    /\ tried = Len(Head(groups).failures)
    /\ \E response \in OracleResponses :
       \E out \in {generate_fix_for_file(Head(groups).failures, Head(groups).file, repo,
                                         response)} :
          /\ repo' = out.tree
          /\ fix_node_commit(out, events \o call_log(out))
    /\ groups' = Tail(groups) /\ tried' = 0
    /\ UNCHANGED <<mode, max_iterations, suite, test_result, iteration, failures_before,
                   all_changes, summary, walk_order, clsVars, locVars, unitVars, runVars>>

\* a fix_node that returns only the Change Records of its own round
fix_node_end_own_round ==
    /\ mode = "graph" /\ pc = "fix_groups" /\ groups = <<>>
    /\ iteration' = iteration + 1
    /\ failures_before' = Len(test_result.failures)
    /\ all_changes' = fixes
    /\ pc' = "test"
    /\ UNCHANGED <<mode, max_iterations, suite, test_result, groups, tried, fixes, summary,
                   events, head, fsVars, clsVars, locVars, unitVars, runVars>>

\* fix_node, the state update it returns
fix_node_end ==
    /\ mode = "graph" /\ pc = "fix_groups" /\ groups = <<>>
    /\ iteration' = iteration + 1
    /\ failures_before' = Len(test_result.failures)
    /\ all_changes' = all_changes \o fixes
    /\ pc' = "test"
    /\ UNCHANGED <<mode, max_iterations, suite, test_result, groups, tried, fixes, summary,
                   events, head, fsVars, clsVars, locVars, unitVars, runVars>>

pr_node ==
    /\ mode = "graph" /\ pc = "pr"
    /\ IF all_changes = <<>>
       THEN pc' = "monitor" /\ UNCHANGED <<events, head>>
       ELSE \E raised \in BOOLEAN, push_success \in BOOLEAN, untracked \in BOOLEAN :
               IF raised
               THEN GraphAborted /\ UNCHANGED <<events, head>>
               ELSE /\ head' = commit_changes(repo, head, DOMAIN repo, untracked)
                    /\ events' = events
                         \o (IF commit_made(repo, head, DOMAIN repo, untracked)
                             THEN <<Event("commit", "-A", Len(all_changes))>> ELSE <<>>)
                         \o <<Event("push", "", IF push_success THEN 1 ELSE 0)>>
                    /\ pc' = "monitor"
    /\ UNCHANGED <<mode, max_iterations, suite, test_result, iteration, failures_before,
                   groups, tried, fixes, all_changes, summary, fsVars, clsVars, locVars, unitVars, runVars>>

monitor_node ==
    /\ mode = "graph" /\ pc = "monitor"
    /\ \E raised \in BOOLEAN, has_workflows \in BOOLEAN, cicd_result \in CIResults :
          IF raised
          THEN GraphAborted /\ UNCHANGED <<summary, events>>
          ELSE /\ (~has_workflows => cicd_result = "unknown")
               /\ summary' = IF has_workflows
                             THEN [summary EXCEPT !.cicd_status = cicd_result]
                             ELSE summary
               /\ events' = IF has_workflows
                            THEN Append(events, Event("monitor", "", 0)) ELSE events
               /\ pc' = "done"
    /\ UNCHANGED <<mode, max_iterations, suite, test_result, iteration, failures_before,
                   groups, tried, fixes, all_changes, head, fsVars, clsVars, locVars, unitVars, runVars>>

-----------------------------------------------------------------------------
(* The controllers *)

Idle == "idle"

\* the components checked on their own have not run
NotApplied == [done |-> FALSE, fix |-> <<>>, calls |-> <<>>]

NotParsed == [done |-> FALSE, failures |-> <<>>]

NoChange == [done |-> FALSE, original_content |-> <<>>, fixed_content |-> <<>>,
             diff |-> [header |-> <<>>, body |-> <<>>]]

NoExtraction == [done |-> FALSE, response |-> <<>>, file |-> <<>>, fixed |-> <<>>,
                 reported |-> FALSE, original |-> <<>>]

\* no run registered, no subscriber, no clone
NoRun == [status |-> "none", summary |-> <<>>]
NoStream == [on |-> FALSE]
NoCheckout == [on |-> FALSE]
NoAttempt == [on |-> FALSE]
NoPair == [on |-> FALSE]
RunIdle ==
    registry = NoRun /\ stream = NoStream /\ checkout = NoCheckout /\ attempt = NoAttempt /\ pair = NoPair

UnitsIdle ==
    /\ app_result = NotApplied
    /\ run_output = <<>> /\ run_languages = {} /\ on_disk = {}
    /\ run_failures = NotParsed
    /\ change_record = NoChange
    /\ extraction = NoExtraction

Init ==
    /\ mode \in {"agent", "graph"}
    /\ pc = "clone"
    /\ max_iterations \in 0..MaxBudget
    /\ \E s \in Scenarios : repo = s.tree /\ suite = s.suite
    /\ head = repo
    /\ walk_order \in WalkOrders(DOMAIN repo)
    /\ test_result = [success |-> FALSE, failures |-> <<>>]
    /\ iteration = 0
    /\ failures_before = 0
    /\ groups = <<>>
    /\ tried = 0
    /\ fixes = <<>>
    /\ all_changes = <<>>
    /\ summary = NewSummary
    /\ events = <<>>
    /\ cls_failures = <<>> /\ cls_result = Idle
    /\ loc_failure = Idle /\ loc_result = Idle
    /\ UnitsIdle
    /\ registry = (IF mode = "agent" THEN [NoRun EXCEPT !.status = "running"] ELSE NoRun)
    /\ stream = NoStream /\ checkout = NoCheckout /\ attempt = NoAttempt /\ pair = NoPair

\* _execute_run after "summary = await agent.run(request, emit=emit_event)"
_execute_run_return ==
    /\ mode = "agent" /\ pc = "done" /\ registry.status = "running"
    /\ registry' = [status |-> "completed", summary |-> <<summary>>]
    /\ UNCHANGED <<ctlVars, fsVars, clsVars, locVars, unitVars, stream, checkout, attempt, pair>>

Next ==
    \/ AgentSetup \/ AgentInitialTest \/ AgentLoop \/ AgentTryRecord \/ AgentTryFile
    \/ AgentRetest
    \/ AgentPublish \/ AgentMonitor \/ _execute_run_return
    \/ clone_node \/ git_branch_node \/ test_node \/ fix_node_start
    \/ fix_node_try_record \/ fix_node_try_file
    \/ fix_node_end \/ pr_node \/ monitor_node

Spec == Init /\ [][Next]_vars

-----------------------------------------------------------------------------
(* The multi-record Bug Classifier on its own *)

ClassifierInputs ==
    {[file_path |-> "math_utils.py", error_message |-> t.error_message,
      error_type |-> t.error_type, raw_output |-> ""] : t \in FailureTexts}

ControllerIdle ==
    /\ mode = Idle /\ pc = Idle /\ max_iterations = 0 /\ suite = {}
    /\ test_result = [success |-> FALSE, failures |-> <<>>]
    /\ iteration = 0 /\ failures_before = 0 /\ groups = <<>> /\ tried = 0
    /\ fixes = <<>>
    /\ all_changes = <<>> /\ summary = NewSummary /\ events = <<>>

InitClassify ==
    /\ ControllerIdle /\ RunIdle
    /\ repo = <<>> /\ head = <<>> /\ walk_order = <<>>
    /\ cls_failures \in ListsUpTo(ClassifierInputs, MaxGroup) \ {<<>>}
    /\ cls_result = Idle
    /\ loc_failure = Idle /\ loc_result = Idle
    /\ UnitsIdle

\* bug_type of generate_fix_for_file
Classify ==
    /\ cls_result = Idle /\ cls_failures # <<>>
    /\ cls_result' = most_severe(cls_failures)
    /\ UNCHANGED <<ctlVars, fsVars, cls_failures, locVars, unitVars, runVars>>

SpecClassify == InitClassify /\ [][Classify]_vars

-----------------------------------------------------------------------------
(* The Fault Localizer on its own *)

\* the import statements a test file of the sample repositories can hold
SampleImports == { <<>>, <<FromImport("math_utils", "add")>>, <<Import("math_util")>> }

SampleTrees ==
    {[f \in S |-> IF f \in TestPyFiles THEN Content(imps, {}) ELSE Content(<<>>, defs)] :
        S \in SUBSET Files, imps \in SampleImports, defs \in {{}, {"add"}}}

LocalizerInputs ==
    {[file_path |-> p, error_message |-> t.error_message, error_type |-> t.error_type,
      raw_output |-> r] : p \in Paths, t \in FailureTexts, r \in RawOutputs}

InitLocate ==
    /\ ControllerIdle /\ RunIdle
    /\ repo \in SampleTrees /\ head = repo
    /\ walk_order \in WalkOrders(DOMAIN repo)
    /\ cls_failures = <<>> /\ cls_result = Idle
    /\ loc_failure \in LocalizerInputs
    /\ loc_result = Idle
    /\ UnitsIdle

Locate ==
    /\ loc_result = Idle
    /\ loc_result' = _locate_source_file(loc_failure, repo, walk_order)
    /\ UNCHANGED <<ctlVars, fsVars, clsVars, loc_failure, unitVars, runVars>>

SpecLocate == InitLocate /\ [][Locate]_vars

-----------------------------------------------------------------------------
(* Properties of the Repair Loop Controller *)

\* the number of events of the run with operation op
Count(op) == Cardinality({i \in DOMAIN events : events[i].op = op})

TestExecutions == Count("test")

\* the stages of the test/fix cycle
InCycle == pc \in {"initial_test", "loop", "fix", "fix_groups", "test"}

\* the Fix Applier calls the groups gs can still take: one per record and
\* one for the file
RECURSIVE CallsLeft(_)
CallsLeft(gs) ==
    IF gs = <<>> THEN 0 ELSE Len(Head(gs).failures) + 1 + CallsLeft(Tail(gs))

\* steps of the cycle that remain at most: the rounds the budget still
\* allows, each at most RoundLength steps, and the steps left of this round
RoundLength == 2 * Cardinality(suite) + 4

Distance ==
    (max_iterations + 1 - TestExecutions) * RoundLength
    + (CASE pc \in {"loop", "fix"} -> 2 * Cardinality(suite) + 3
         [] pc = "fix_groups"      -> CallsLeft(groups) - tried + 2
         [] pc \in {"initial_test", "test"} -> 1
         [] OTHER -> 0)

\* C1: whatever the budget N and the answers of the test runner, Localizer
\* and Oracle, a run of either controller executes the tests at most N+1
\* times, and it leaves the test/fix cycle for the publish or finish stage:
\* in the cycle a next step is always possible, and every step taken there
\* either leaves the cycle for that stage or brings the run closer to the
\* end of the cycle, a distance that is never negative.
C1_BoundedTestsThenExit ==
    /\ [](TestExecutions <= max_iterations + 1)
    /\ [](InCycle => (Distance >= 0 /\ ENABLED Next))
    /\ [][InCycle => \/ InCycle' /\ Distance' < Distance
                     \/ pc' \in {"publish", "pr", "done", "aborted"}]_vars

\* the budget is spent: the last re-run allowed has failed and the run has
\* gone on to the publish stage
C1_BudgetSpent ==
    /\ max_iterations = MaxBudget
    /\ TestExecutions = max_iterations + 1
    /\ ~test_result.success
    /\ pc \in {"publish", "pr"}

\* the initial test execution reported no Failure Record
InitialRunReportsNothing ==
    \E i \in DOMAIN events :
        /\ events[i].op = "test" /\ events[i].n = 0
        /\ \A j \in 1..(i - 1) : events[j].op # "test"

\* C2: if the initial test execution yields zero Failure Records, there is
\* no fix round and no test re-run, no Change Record, and the run that
\* Agent.run returns has status success.
C2_NoFailuresNoWork ==
    InitialRunReportsNothing =>
        /\ TestExecutions = 1
        /\ pc \notin {"fix", "fix_groups"}
        /\ all_changes = <<>> /\ fixes = <<>>
        /\ summary.iterations = <<>>
        /\ (mode = "agent" /\ pc = "done") => summary.cicd_status = "passed"

\* C3: the iteration history never holds more Iteration Records than the
\* budget N, and a step only ever appends to it.
C3_IterationHistory ==
    /\ [](Len(summary.iterations) <= max_iterations)
    /\ [][/\ Len(summary.iterations) <= Len(summary'.iterations)
          /\ SubSeq(summary'.iterations, 1, Len(summary.iterations))
                = summary.iterations]_vars

\* the history is full: as many Iteration Records as the budget allows
C3_HistoryFull ==
    /\ max_iterations = MaxBudget
    /\ Len(summary.iterations) = max_iterations
    /\ summary.iterations[max_iterations].iteration_number = max_iterations

RECURSIVE SumFixes(_)
SumFixes(iterations) ==
    IF iterations = <<>> THEN 0
    ELSE Len(Head(iterations).fixes_applied) + SumFixes(Tail(iterations))

\* C4: in every summary that Agent.run returns, total_fixes_applied is the
\* sum of the Change Records of the Iteration Records and the length of the
\* summary's list of Change Records.
C4_SummaryTotalsAgree ==
    (mode = "agent" /\ pc = "done") =>
        /\ summary.total_fixes_applied = SumFixes(summary.iterations)
        /\ summary.total_fixes_applied = Len(summary.all_changes)

\* the Oracle requests made for the group announced by event i
RequestsOfGroup(i) ==
    {j \in DOMAIN events :
        /\ j > i /\ events[j].op = "oracle"
        /\ \A k \in (i + 1)..(j - 1) : events[k].op \notin {"group", "test"}}

\* C5: for a group of Failure Records that share a resolved file, a round
\* makes at most one Oracle request, and that request carries all the
\* records of the group.
C5_OneBatchedRequestPerGroup ==
    \A i \in DOMAIN events :
        events[i].op = "group" =>
            /\ Cardinality(RequestsOfGroup(i)) <= 1
            /\ \A j \in RequestsOfGroup(i) : events[j].n = events[i].n

\* C6: every Change Record is committed on its own right after its fix is
\* applied, before the next group and before the test re-run (only a commit
\* that raises, which ends the run, leaves a fix uncommitted).
C6_CommitRightAfterFix ==
    \A i \in DOMAIN events :
        events[i].op = "fix" =>
            IF i < Len(events)
            THEN events[i + 1] = Event("commit", events[i].file, 1)
            ELSE pc = "aborted"

\* the priority order of the categories
SeverityOrder ==
    <<"SYNTAX", "INDENTATION", "TYPE_ERROR", "IMPORT", "LOGIC", "LINTING", "UNKNOWN">>

Rank(category) == CHOOSE i \in DOMAIN SeverityOrder : SeverityOrder[i] = category

\* the categories of the records of a list, each classified on its own
Categories(failures) == {_classify_bug_type(failures[i]) : i \in DOMAIN failures}

\* category is the highest of the categories of the records
IsHighest(category, failures) ==
    /\ category \in Categories(failures)
    /\ \A c \in Categories(failures) : Rank(category) <= Rank(c)

\* C7: when the group of a file holds several defects, the Change Record
\* of the group carries the highest category of the group, not that of the
\* record that was processed first.
C7_GroupChangeHasHighestCategory ==
    [][(/\ pc = "fix_groups" /\ groups # <<>> /\ groups' = Tail(groups)
        /\ Len(fixes') = Len(fixes) + 1
        /\ Cardinality(Categories(Head(groups).failures)) > 1)
       => IsHighest(fixes'[Len(fixes')].bug_type, Head(groups).failures)]_vars

-----------------------------------------------------------------------------
(* Properties of the Bug Classifier and of the Fault Localizer *)

\* C8: for a non-empty list of Failure Records, the multi-record classifier
\* returns the category highest in SYNTAX > INDENTATION > TYPE_ERROR >
\* IMPORT > LOGIC > LINTING > UNKNOWN among the categories of the records
\* classified one by one; the result is the category of one of them, and
\* {IMPORT, SYNTAX} gives SYNTAX.
C8_HighestCategoryWins ==
    cls_result # Idle =>
        /\ IsHighest(cls_result, cls_failures)
        /\ Categories(cls_failures) = {"IMPORT", "SYNTAX"} => cls_result = "SYNTAX"

\* an import record listed before a syntax record is classified SYNTAX
C8_ImportThenSyntax ==
    /\ Len(cls_failures) = 2
    /\ _classify_bug_type(cls_failures[1]) = "IMPORT"
    /\ _classify_bug_type(cls_failures[2]) = "SYNTAX"
    /\ cls_result = "SYNTAX"

\* the record is flagged as a structural parse failure
StructuralParseFailure(failure) == HasAny(err_lower(failure), SyntaxMarkers)

\* C9 as stated: for a record flagged as a structural parse failure that
\* names a file, in every repository state, the Localizer returns the file
\* the record names.
C9_OwnFileAlways ==
    (/\ loc_result # Idle /\ StructuralParseFailure(loc_failure)
     /\ loc_failure.file_path # "")
        => loc_result = loc_failure.file_path

\* C9: for a record flagged as a structural parse failure that names a file
\* of the working tree, the Localizer returns that file, whatever the other
\* strategies would find.
C9_OwnFileWhenItExists ==
    (/\ loc_result # Idle /\ StructuralParseFailure(loc_failure)
     /\ loc_failure.file_path \in DOMAIN repo)
        => loc_result = loc_failure.file_path

\* the record's own file is returned although the imports of that file
\* lead to another file
C9_OwnFileDespiteImports ==
    /\ loc_result # Idle /\ StructuralParseFailure(loc_failure)
    /\ loc_failure.file_path \in DOMAIN repo
    /\ strategy_imports(loc_failure, repo, walk_order) \notin {None, loc_failure.file_path}
    /\ loc_result = loc_failure.file_path

\* the record reports a module that was not found, and the missing name
\* matches a real non-test source file by prefix
MissingModuleHasRealFile(failure, tree) ==
    LET text    == all_error_text(failure)
        all     == {text[i] : i \in DOMAIN text}
        missing == FirstCapture(NoModuleNamed, text)
    IN  /\ HasAny(all, {"modulenotfounderror"})
        /\ missing # ""
        /\ \E f \in DOMAIN tree \cap RealModuleFiles :
              <<f, LastSegment[missing]>> \in FuzzyMatch

\* C10: for a record of a test file of the repository that reports a module
\* not found whose name matches a real source file, the Localizer returns
\* the file the record names, never another test file.
C10_ReferencingFileReturned ==
    (/\ loc_result # Idle
     /\ ~StructuralParseFailure(loc_failure)
     /\ MissingModuleHasRealFile(loc_failure, repo)
     /\ loc_failure.file_path \in DOMAIN repo \cap TestPyFiles)
        => loc_result = loc_failure.file_path

-----------------------------------------------------------------------------
(* The Fix Applier on its own: one generate_fix call *)

\* the import statements of the test files the Fix Applier is tried on
ApplierImports ==
    { <<FromImport("math_utils", "add")>>,
      <<Import("math_util")>>,
      <<Import("mathutil")>>,
      <<FromImport("math_util", "add"), Import("math_util")>> }

ApplierTrees ==
    {[f \in S |-> IF f = "test.py" THEN Content(i1, {})
                  ELSE IF f = "tests/test_app.py" THEN Content(i2, {})
                  ELSE Content(<<>>, {"add"})] :
        S \in SUBSET Files, i1 \in ApplierImports, i2 \in ApplierImports}

ApplierInputs ==
    {Failure(p, m, r) : p \in Files, m \in Messages \ {""}, r \in RawOutputs}

InitApply ==
    /\ ControllerIdle /\ RunIdle
    /\ repo \in ApplierTrees /\ head = repo
    /\ walk_order \in WalkOrders(DOMAIN repo)
    /\ cls_failures = <<>> /\ cls_result = Idle
    /\ loc_failure \in ApplierInputs
    /\ loc_result = Idle
    /\ UnitsIdle

\* fix = self.fix_generator.generate_fix(failure, repo_path)
Apply ==
    /\ ~app_result.done
    /\ \E response \in OracleResponses :
         \E out \in {generate_fix(loc_failure, repo, walk_order, response)} :
            /\ app_result' = [done |-> TRUE, fix |-> out.fix, calls |-> out.calls]
            /\ repo' = out.tree
    /\ UNCHANGED <<ctlVars, runVars, walk_order, clsVars, locVars, outVars, change_record, extraction>>

SpecApply == InitApply /\ [][Apply]_vars

-----------------------------------------------------------------------------
(* Properties of the Fix Applier *)

\* the modules a content refers to
Referenced(content) == {content.imports[i].module : i \in DOMAIN content.imports}

\* a missing name and the real source file of nearly the same name
NearNames == {<<"math_util", "math_utils.py">>, <<"mathutil", "math_utils.py">>}

\* the record comes from a test file of the tree that refers to a module
\* which does not exist, while a real file of nearly the same name does
WrongModuleName(failure, tree) ==
    LET text    == all_error_text(failure)
        missing == FirstCapture(NoModuleNamed, text)
    IN  /\ failure.error_type = "ModuleNotFoundError"
        /\ failure.file_path \in DOMAIN tree \cap TestPyFiles
        /\ missing \in Referenced(tree[failure.file_path])
        /\ \E f \in DOMAIN tree : <<missing, f>> \in NearNames

\* C11: when a test file refers to a missing module whose real counterpart
\* exists under a nearly identical name, generate_fix resolves the fault to
\* that test file and returns one IMPORT Change Record, made by the
\* programmatic rewrite, in which no occurrence of the missing name is left,
\* and it makes no Fix Oracle request.
C11_ImportRewrittenWithoutOracle ==
    (app_result.done /\ WrongModuleName(loc_failure, head)) =>
        /\ app_result.calls = <<>>
        /\ Len(app_result.fix) = 1
        /\ app_result.fix[1].file_path = loc_failure.file_path
        /\ app_result.fix[1].bug_type = "IMPORT"
        /\ app_result.fix[1].via = "programmatic"
        /\ Referenced(app_result.fix[1].fixed_content) = {"math_utils"}

-----------------------------------------------------------------------------
(* The Output Interpreter on its own *)


\* the paths of tracebacks that may or may not exist
TracebackPaths == {"math_utils.py", "../shared/util.py"}

InitInterpret ==
    /\ ControllerIdle /\ RunIdle
    /\ repo = <<>> /\ head = <<>> /\ walk_order = <<>>
    /\ cls_failures = <<>> /\ cls_result = Idle
    /\ loc_failure = Idle /\ loc_result = Idle
    /\ app_result = NotApplied
    /\ run_output \in ListsUpTo(OutputLines, MaxLines)
    /\ run_languages \in Hints
    /\ on_disk \in SUBSET TracebackPaths
    /\ run_failures = NotParsed
    /\ change_record = NoChange
    /\ extraction = NoExtraction

\* failures = self._parse_failures(result["output"], repo_path, languages, test_frameworks)
Interpret ==
    /\ ~run_failures.done
    /\ run_failures' = [done |-> TRUE,
                        failures |-> _parse_failures(run_output, run_languages, on_disk)]
    /\ UNCHANGED <<ctlVars, runVars, fsVars, clsVars, locVars, app_result, run_output,
                   run_languages, on_disk, change_record, extraction>>

SpecInterpret == InitInterpret /\ [][Interpret]_vars

-----------------------------------------------------------------------------
(* Properties of the Output Interpreter *)

Records == {run_failures.failures[i] : i \in DOMAIN run_failures.failures}

\* what a line of the shape FAILED <path>::<name> - <Msg> says: its path, the
\* test identifiers that stand for its name, and the part of Msg before the
\* first colon
FailedShape ==
    "FAILED tests/test_app.py::test_add - AssertionError: assert 1 == 2" :>
        [path |-> "tests/test_app.py", names |-> {"test_add"},
         category |-> "AssertionError"] @@
    "FAILED test.py::TestMath::test_add - TypeError: unsupported operand" :>
        [path |-> "test.py", names |-> {"test_add", "TestMath::test_add"},
         category |-> "TypeError"] @@
    "FAILED test.py::test_add[1-2] - AssertionError: assert 3 == 4" :>
        [path |-> "test.py", names |-> {"test_add", "test_add[1-2]"},
         category |-> "AssertionError"]

\* C12: for an output of the line-oriented dialect that is one line of the
\* shape FAILED a/b/c.ext::name - Msg, also when the test identifier has a
\* class qualifier or a parameter suffix, the Interpreter returns exactly
\* one Failure Record, with file path a/b/c.ext, test identifier name and
\* error category the part of Msg before its first colon.
C12_FailedLineGivesItsRecord ==
    (/\ run_failures.done /\ run_languages = {"python"}
     /\ Len(run_output) = 1 /\ run_output[1] \in DOMAIN FailedShape)
        => /\ Len(run_failures.failures) = 1
           /\ run_failures.failures[1].file_path = FailedShape[run_output[1]].path
           /\ run_failures.failures[1].test_name \in FailedShape[run_output[1]].names
           /\ run_failures.failures[1].error_type = FailedShape[run_output[1]].category

\* the path begins with "../"
LeadingTraversal(path) == path \in DOMAIN PathFacts /\ PathFacts[path].stripped # path

\* C13: no Failure Record the Interpreter returns, in any dialect, has a
\* file path that begins with a parent-directory segment "../".
C13_NoLeadingTraversal ==
    run_failures.done => \A r \in Records : ~LeadingTraversal(r.file_path)

\* the first line of the output a record of that test identifier can come from
SourceLine(test_name) ==
    LET from == {i \in DOMAIN run_output :
                    LET l == Clean[run_output[i]]
                    IN  \/ \E k \in DOMAIN PytestLine[l].failed :
                              PytestLine[l].failed[k].name = test_name
                        \/ /\ test_name = "(collection error)"
                           /\ PytestLine[l].collect_with_msg \o PytestLine[l].collect_bare # <<>>
                        \/ JestLine[l].bullet = <<test_name>>
                        \/ test_name = "(vitest error)" /\ JestLine[l].error_tail # <<>>
                        \/ test_name = "(generic failure)"}
    IN  IF from = {} THEN 0 ELSE CHOOSE i \in from : \A j \in from : i <= j

\* C14: the Failure Records are listed in the order in which the failures
\* appear in the raw text: a record whose line comes earlier in the text
\* comes earlier in the list.
C14_RecordsInTextOrder ==
    run_failures.done =>
        \A i, j \in DOMAIN run_failures.failures :
            i < j => SourceLine(run_failures.failures[i].test_name)
                        <= SourceLine(run_failures.failures[j].test_name)

\* the output has FAIL <path> lines and no bullet line
FileLevelOnly ==
    /\ \E i \in DOMAIN run_output : JestLine[Clean[run_output[i]]].fail_match # <<>>
    /\ \A i \in DOMAIN run_output : JestLine[Clean[run_output[i]]].bullet = <<>>

\* C15: in the block-oriented dialect, a FAIL <path> line followed by no
\* bullet line gives exactly one Failure Record whose test identifier is
\* "(file-level failure)" and whose file path is the failed file.
C15_FileLevelFailureRecord ==
    (/\ run_failures.done /\ run_languages = {"javascript"}
     /\ Len(run_output) = 1 /\ FileLevelOnly)
        => /\ Len(run_failures.failures) = 1
           /\ run_failures.failures[1].test_name = "(file-level failure)"
           /\ \E p \in {JestLine[run_output[1]].fail_match[1]} :
                 run_failures.failures[1].file_path \in {p, PathFacts[p].stripped}

\* C16: the Failure Records depend on the raw text and the hints only: the
\* same text and hints give the same records whatever files exist.
C16_SameRecordsWhateverExists ==
    run_failures.done =>
        \A exists \in SUBSET TracebackPaths :
            _parse_failures(run_output, run_languages, exists) = run_failures.failures

-----------------------------------------------------------------------------
(* _generate_diff.  A text is the list str.splitlines(keepends=True) makes  *)
(* of it: lines [text, nl], where only the last line may lack its newline.  *)

LineTexts == {"a = 1", "b = 2"}

FileTexts ==
    {t \in ListsUpTo([text : LineTexts, nl : BOOLEAN], MaxFileLines) :
        \A i \in DOMAIN t : i < Len(t) => t[i].nl}

\* "".join(difflib.unified_diff(original_lines, fixed_lines, fromfile, tofile)):
\* the hunk ranges and, for the body, the physical lines of the joined text.
\* Every string difflib yields is a tag followed by a line of the file with
\* the line's own ending, so a string without newline runs into the next one.
\* Texts of at most four lines lie within the three lines of context: one hunk.
_generate_diff(original, fixed) ==
    LET Same(i, j, k) == \A d \in 0..(k - 1) : original[i + d] = fixed[j + d]
        \* SequenceMatcher.find_longest_match: the longest block, then the
        \* earliest in original, then the earliest in fixed
        Longest(alo, ahi, blo, bhi) ==
            LET blocks == {m \in (alo..ahi) \X (blo..bhi) \X (1..Len(original)) :
                              /\ m[1] + m[3] - 1 <= ahi /\ m[2] + m[3] - 1 <= bhi
                              /\ Same(m[1], m[2], m[3])}
                Better(m, o) == \/ m[3] > o[3]
                                \/ m[3] = o[3] /\ m[1] < o[1]
                                \/ m[3] = o[3] /\ m[1] = o[1] /\ m[2] <= o[2]
            IN  IF blocks = {} THEN <<>>
                ELSE <<CHOOSE m \in blocks : \A o \in blocks : Better(m, o)>>
        \* SequenceMatcher.get_matching_blocks
        RECURSIVE Matching(_, _, _, _)
        Matching(alo, ahi, blo, bhi) ==
            LET found == Longest(alo, ahi, blo, bhi)
            IN  IF found = <<>> THEN <<>>
                ELSE Matching(alo, found[1][1] - 1, blo, found[1][2] - 1)
                     \o found
                     \o Matching(found[1][1] + found[1][3], ahi,
                                 found[1][2] + found[1][3], bhi)
        Tagged(tag, lines, lo, hi) ==
            [x \in 1..(hi - lo + 1) |->
                [tag |-> tag, text |-> lines[lo + x - 1].text, nl |-> lines[lo + x - 1].nl]]
        \* the strings of a hunk: ' ' + line, '-' + line, '+' + line
        RECURSIVE Strings(_, _, _)
        Strings(i, j, blocks) ==
            IF blocks = <<>>
            THEN Tagged("-", original, i, Len(original)) \o Tagged("+", fixed, j, Len(fixed))
            ELSE Tagged("-", original, i, Head(blocks)[1] - 1)
                 \o Tagged("+", fixed, j, Head(blocks)[2] - 1)
                 \o Tagged(" ", original, Head(blocks)[1], Head(blocks)[1] + Head(blocks)[3] - 1)
                 \o Strings(Head(blocks)[1] + Head(blocks)[3],
                            Head(blocks)[2] + Head(blocks)[3], Tail(blocks))
        \* "".join(diff), read line by line
        RECURSIVE Joined(_, _)
        Joined(strings, pending) ==
            IF strings = <<>>
            THEN IF pending = <<>> THEN <<>> ELSE <<[tokens |-> pending, nl |-> FALSE]>>
            ELSE LET tokens == pending \o <<Head(strings).tag, Head(strings).text>>
                 IN  IF Head(strings).nl
                     THEN <<[tokens |-> tokens, nl |-> TRUE]>> \o Joined(Tail(strings), <<>>)
                     ELSE Joined(Tail(strings), tokens)
        \* _format_range_unified
        Range(lines) == [start |-> IF lines = <<>> THEN 0 ELSE 1, length |-> Len(lines)]
    IN  IF original = fixed THEN [header |-> <<>>, body |-> <<>>]
        ELSE [header |-> <<[old |-> Range(original), new |-> Range(fixed)]>>,
              body   |-> Joined(Strings(1, 1, Matching(1, Len(original), 1, Len(fixed))),
                                <<>>)]

\* the texts a Change Record can hold: the new text differs from the original
\* and ends with a newline (_extract_code), or it is the original with the
\* same line ends and a name replaced (programmatic rewrite)
ChangeInputs ==
    {io \in FileTexts \X FileTexts :
        /\ io[1] # io[2]
        /\ \/ io[2] # <<>> /\ io[2][Len(io[2])].nl
           \/ /\ Len(io[1]) = Len(io[2])
              /\ \A i \in DOMAIN io[1] : io[1][i].nl = io[2][i].nl}

InitDiff ==
    /\ ControllerIdle /\ RunIdle
    /\ repo = <<>> /\ head = <<>> /\ walk_order = <<>>
    /\ cls_failures = <<>> /\ cls_result = Idle
    /\ loc_failure = Idle /\ loc_result = Idle
    /\ app_result = NotApplied
    /\ run_output = <<>> /\ run_languages = {} /\ on_disk = {}
    /\ run_failures = NotParsed
    /\ extraction = NoExtraction
    /\ \E io \in ChangeInputs :
          change_record = [NoChange EXCEPT !.original_content = io[1],
                                           !.fixed_content = io[2]]

\* diff = self._generate_diff(original_content, fixed_content, source_file)
GenerateDiff ==
    /\ ~change_record.done
    /\ change_record' =
          [change_record EXCEPT !.done = TRUE,
                                !.diff = _generate_diff(change_record.original_content,
                                                        change_record.fixed_content)]
    /\ UNCHANGED <<ctlVars, runVars, fsVars, clsVars, locVars, app_result, outVars, extraction>>

SpecDiff == InitDiff /\ [][GenerateDiff]_vars

-----------------------------------------------------------------------------
(* Properties of the stored diff *)

\* applying a unified diff of one hunk to a text, as patch does: every line
\* of the hunk is a tag and one line of text and ends with a newline (a last
\* context line may lack it), the old side of the hunk is the text it is
\* applied to, and the result is the new side
apply_patch(original, diff) ==
    LET body    == diff.body
        WellFormed == \A i \in DOMAIN body :
                          /\ Len(body[i].tokens) = 2
                          /\ body[i].nl \/ (i = Len(body) /\ body[i].tokens[1] = " ")
        IsOld(l) == l.tokens[1] \in {" ", "-"}
        IsNew(l) == l.tokens[1] \in {" ", "+"}
        old     == SelectSeq(body, IsOld)
        new     == SelectSeq(body, IsNew)
    IN  IF diff.header = <<>> THEN [ok |-> TRUE, content |-> original]
        ELSE IF /\ WellFormed
                /\ Len(old) = diff.header[1].old.length
                /\ Len(new) = diff.header[1].new.length
                /\ Len(old) = Len(original)
                /\ \A i \in DOMAIN old : old[i].tokens[2] = original[i].text
             THEN [ok |-> TRUE,
                   content |-> [i \in DOMAIN new |-> [text |-> new[i].tokens[2], nl |-> new[i].nl]]]
        ELSE [ok |-> FALSE, content |-> <<>>]

\* C17: applying the unified diff stored in a Change Record to its original
\* content gives its new content byte for byte, also when the original or
\* the new content does not end with a newline.
C17_DiffRoundTrip ==
    change_record.done =>
        apply_patch(change_record.original_content, change_record.diff)
            = [ok |-> TRUE, content |-> change_record.fixed_content]

-----------------------------------------------------------------------------
(* _extract_code.  An Oracle answer is a list of lines; a text made of it   *)
(* is the list of its lines, each ended by a newline.                       *)

\* the lines of an answer (\x60 stands for the grave accent): len(line) + 1,
\* whether the line is three grave accents and then r"(?:\w+)?", whether
\* l.startswith("#") and not l.startswith("#!/"), and whether the line is
\* white space only
ResponseLine ==
    "\\x60\\x60\\x60python" :> [len |-> 10, fence |-> TRUE,  comment |-> FALSE, blank |-> FALSE] @@
    "\\x60\\x60\\x60"       :> [len |-> 4,  fence |-> TRUE,  comment |-> FALSE, blank |-> FALSE] @@
    "x = 1"                  :> [len |-> 6,  fence |-> FALSE, comment |-> FALSE, blank |-> FALSE] @@
    "# fixed"                :> [len |-> 8,  fence |-> FALSE, comment |-> TRUE,  blank |-> FALSE] @@
    "#!/bin/sh"              :> [len |-> 10, fence |-> FALSE, comment |-> FALSE, blank |-> FALSE] @@
    ""                       :> [len |-> 1,  fence |-> FALSE, comment |-> FALSE, blank |-> TRUE]

\* _extract_code(ai_response, original): <<text>>, or <<>> for None
_extract_code(ai_response) ==
    LET IsFence(l) == ResponseLine[l].fence
        \* re.findall(r"\x60\x60\x60(?:\w+)?\n(.*?)\x60\x60\x60", ai_response, re.DOTALL)
        RECURSIVE code_blocks(_)
        code_blocks(i) ==
            LET closing == {j \in (i + 1)..Len(ai_response) : IsFence(ai_response[j])}
                close   == CHOOSE j \in closing : \A k \in closing : j <= k
            IN  IF i > Len(ai_response) THEN <<>>
                ELSE IF ~IsFence(ai_response[i]) THEN code_blocks(i + 1)
                ELSE IF closing = {} THEN <<>>
                ELSE <<SubSeq(ai_response, i + 1, close - 1)>> \o code_blocks(close + 1)
        RECURSIVE size(_)
        size(block) == IF block = <<>> THEN 0
                       ELSE ResponseLine[Head(block)].len + size(Tail(block))
        \* max(code_blocks, key=len): the first of the longest
        largest(blocks) ==
            blocks[CHOOSE i \in DOMAIN blocks :
                      \A j \in DOMAIN blocks :
                          \/ size(blocks[i]) > size(blocks[j])
                          \/ size(blocks[i]) = size(blocks[j]) /\ i <= j]
        \* str.strip() on lines that neither start nor end with white space
        RECURSIVE strip(_)
        strip(lines) ==
            IF lines = <<>> THEN <<>>
            ELSE IF ResponseLine[Head(lines)].blank THEN strip(Tail(lines))
            ELSE IF ResponseLine[lines[Len(lines)]].blank
                 THEN strip(SubSeq(lines, 1, Len(lines) - 1))
            ELSE lines
        \* text.strip() + "\n"
        stripped(lines) == IF strip(lines) = <<>> THEN <<"">> ELSE strip(lines)
        IsCode(l)  == ~ResponseLine[l].comment
        \* "".strip().split("\n") is [""]
        lines      == IF strip(ai_response) = <<>> THEN <<"">> ELSE strip(ai_response)
        code_lines == SelectSeq(lines, IsCode)
    IN  IF code_blocks(1) # <<>> THEN <<stripped(largest(code_blocks(1)))>>
        ELSE IF Len(code_lines) > 3 THEN <<stripped(code_lines)>>
        ELSE <<>>

\* the file the answer is for
Originals == { <<"x = 1">>, <<"x = 1", "x = 1", "x = 1", "x = 1">> }

InitExtract ==
    /\ ControllerIdle /\ RunIdle
    /\ repo = <<>> /\ head = <<>> /\ walk_order = <<>>
    /\ cls_failures = <<>> /\ cls_result = Idle
    /\ loc_failure = Idle /\ loc_result = Idle
    /\ app_result = NotApplied
    /\ run_output = <<>> /\ run_languages = {} /\ on_disk = {}
    /\ run_failures = NotParsed
    /\ change_record = NoChange
    /\ \E response \in ListsUpTo(DOMAIN ResponseLine, MaxResponse), original \in Originals :
          extraction = [NoExtraction EXCEPT !.response = response, !.file = original,
                                            !.original = original]

\* generate_fix_for_file from the answer of the Oracle on: extract, compare, write
Extract ==
    /\ ~extraction.done
    /\ \E fixed_content \in {IF extraction.response = <<>> THEN <<>>
                             ELSE _extract_code(extraction.response)} :
          IF fixed_content # <<>> /\ fixed_content[1] # extraction.original
          THEN extraction' = [extraction EXCEPT !.done = TRUE, !.fixed = fixed_content,
                                                !.file = fixed_content[1],
                                                !.reported = TRUE]
          ELSE extraction' = [extraction EXCEPT !.done = TRUE, !.fixed = fixed_content]
    /\ UNCHANGED <<ctlVars, runVars, fsVars, clsVars, locVars, app_result, outVars, change_record>>

SpecExtract == InitExtract /\ [][Extract]_vars

-----------------------------------------------------------------------------
(* Properties of the extraction *)

\* the fenced blocks of an answer: the lines between a fence line and the
\* next fence line
RECURSIVE FencedBlocks(_)
FencedBlocks(answer) ==
    LET fences == {i \in DOMAIN answer : ResponseLine[answer[i]].fence}
        first  == CHOOSE i \in fences : \A j \in fences : i <= j
        later  == {j \in fences : j > first}
        second == CHOOSE j \in later : \A k \in later : j <= k
    IN  IF fences = {} \/ later = {} THEN <<>>
        ELSE <<SubSeq(answer, first + 1, second - 1)>>
             \o FencedBlocks(SubSeq(answer, second + 1, Len(answer)))

\* a text without the blank lines at its ends
RECURSIVE Trimmed(_)
Trimmed(text) ==
    IF text = <<>> THEN <<>>
    ELSE IF Head(text) = "" THEN Trimmed(Tail(text))
    ELSE IF text[Len(text)] = "" THEN Trimmed(SubSeq(text, 1, Len(text) - 1))
    ELSE text

\* C18: the Fix Applier takes the largest fenced block of the answer when
\* there is one; when there is none it takes the answer as it is if the
\* answer has more than three non-comment lines, and otherwise extraction
\* fails; when extraction fails or the extracted content equals the original
\* content, it reports none and leaves the file as it was.
C18_ExtractsBlockOrWholeAnswer ==
    extraction.done =>
        LET blocks == FencedBlocks(extraction.response)
            Code(l) == ~ResponseLine[l].comment
            RECURSIVE Size(_)
            Size(text) == IF text = <<>> THEN 0
                          ELSE ResponseLine[Head(text)].len + Size(Tail(text))
        IN  /\ blocks # <<>> =>
                  \E i \in DOMAIN blocks :
                      /\ Trimmed(extraction.fixed[1]) = Trimmed(blocks[i])
                      /\ \A j \in DOMAIN blocks : Size(blocks[j]) <= Size(blocks[i])
            /\ (blocks = <<>> /\ Len(SelectSeq(Trimmed(extraction.response), Code)) > 3) =>
                  extraction.fixed = <<Trimmed(extraction.response)>>
            /\ (blocks = <<>> /\ Len(SelectSeq(Trimmed(extraction.response), Code)) <= 3) =>
                  extraction.fixed = <<>>
            /\ (extraction.fixed = <<>> \/ extraction.fixed = <<extraction.original>>) =>
                  ~extraction.reported /\ extraction.file = extraction.original

-----------------------------------------------------------------------------
(* Properties of the controllers on test executions that time out *)

\* the last test execution of the run so far timed out
LastTestTimedOut ==
    \E i \in DOMAIN events :
        /\ events[i].op = "test" /\ events[i].file = "timeout"
        /\ \A j \in (i + 1)..Len(events) : events[j].op # "test"

\* the step is a test execution that timed out
TimedOutTest ==
    /\ Len(events') = Len(events) + 1
    /\ events'[Len(events')].op = "test" /\ events'[Len(events')].file = "timeout"

\* C19: a test execution that times out gives a failed test result with no
\* Failure Records and raises nothing, the controller goes on with its normal
\* course, and the run ends with the outcome failed.
C19_TimeoutEndsRunAsFailed ==
    /\ [][TimedOutTest => /\ ~test_result'.success /\ test_result'.failures = <<>>
                          /\ pc' \in {"loop", "fix", "pr"}]_vars
    /\ []((pc = "done" /\ LastTestTimedOut) => summary.cicd_status = "failed")

-----------------------------------------------------------------------------
(* Properties of the controllers when the budget runs out *)

PublishStage == {"publish", "pr"}
AfterPublish == {"monitor", "done", "aborted"}

\* all the rounds of the budget were run and the tests still fail
BudgetExhausted ==
    /\ TestExecutions >= 1 /\ TestExecutions - 1 >= max_iterations
    /\ ~test_result.success

\* the files of the fix applications of the run, in order
RECURSIVE FixedFiles(_)
FixedFiles(log) ==
    IF log = <<>> THEN <<>>
    ELSE (IF Head(log).op = "fix" THEN <<Head(log).file>> ELSE <<>>) \o FixedFiles(Tail(log))

\* C20: when the budget is exhausted while the tests still fail, the run goes
\* on to the publish stage instead of ending as an error, enters it once,
\* has there every Change Record of all the iterations, and runs no test and
\* applies no fix from then on.
C20_ExhaustedBudgetPublishesOnce ==
    /\ [][BudgetExhausted =>
            /\ pc \notin PublishStage \cup AfterPublish => pc' \in PublishStage
            /\ pc \in PublishStage \cup AfterPublish => pc' \in AfterPublish
            /\ \A i \in (Len(events) + 1)..Len(events') :
                  events'[i].op \in {"commit", "push", "monitor", "error"}
            /\ repo' = repo]_vars
    /\ [](BudgetExhausted /\ pc \in PublishStage =>
            [i \in DOMAIN all_changes |-> all_changes[i].file_path] = FixedFiles(events))
    /\ [](Count("push") <= 1)

\* a run that spent its budget with failing tests and pushed its changes
C20_PublishedAfterExhaustion ==
    /\ BudgetExhausted /\ max_iterations > 0 /\ pc = "monitor"
    /\ Len(all_changes) > 1 /\ Count("push") = 1

-----------------------------------------------------------------------------
(* Properties of rounds that produce no Change Record *)

\* round k had Failure Records to address and produced no Change Record
ZeroFixRound(k) ==
    /\ summary.iterations[k].failures_before > 0
    /\ summary.iterations[k].fixes_applied = <<>>

-----------------------------------------------------------------------------
(* Properties of a run in which a step raised *)

\* a step of Agent.run raised
Raised == \E i \in DOMAIN events : events[i].op = "error"

\* C22: when a step of the run raises, the run is aborted, no later phase
\* runs, and the terminal status is failed in the returned summary and in
\* the entry of the run registry.
C22_RaisedRunIsFailedEverywhere ==
    (mode = "agent" /\ Raised) =>
        /\ pc = "done"
        /\ events[Len(events)].op = "error"
        /\ summary.cicd_status = "failed"
        /\ registry.status # "running" =>
              /\ registry.status = "failed"
              /\ registry.summary = <<summary>>

-----------------------------------------------------------------------------
(* The event stream of one run: emit_event of _execute_run and the          *)
(* WebSocket endpoint.  The tasks run on one event loop and give way to     *)
(* each other only at an await.                                             *)

\* the WebSocket connections of the clients of the run
Subscribers == {"ws1", "ws2"}

\* a connection before websocket_endpoint accepted it
NewSubscriber == [state |-> "new", received |-> <<>>, started |-> 0, finished |-> 0]

\* list.remove by comprehension: [c for c in conns if c != ws]
Without(conns, ws) == SelectSeq(conns, LAMBDA c : c # ws)

InitStream ==
    /\ ControllerIdle
    /\ repo = <<>> /\ head = <<>> /\ walk_order = <<>>
    /\ cls_failures = <<>> /\ cls_result = Idle
    /\ loc_failure = Idle /\ loc_result = Idle
    /\ UnitsIdle
    /\ registry = NoRun /\ checkout = NoCheckout /\ attempt = NoAttempt /\ pair = NoPair
    /\ stream = [on |-> TRUE, conns |-> <<>>, clients |-> <<>>, same_list |-> FALSE,
                 next |-> 1, disconnected |-> <<>>, emitting |-> FALSE,
                 started |-> 0, finished |-> 0,
                 sub |-> [ws \in Subscribers |-> NewSubscriber]]

StreamRest == UNCHANGED <<ctlVars, fsVars, clsVars, locVars, unitVars, registry, checkout, attempt, pair>>

\* an endpoint that hands a new subscriber the events broadcast so far
ws_attach_with_replay ==
    /\ stream.on
    /\ \E ws \in Subscribers :
          /\ stream.sub[ws].state = "new"
          /\ stream' = [stream EXCEPT
                !.conns = Append(@, ws),
                !.clients = IF stream.emitting /\ stream.same_list THEN Append(@, ws) ELSE @,
                !.sub[ws] = [@ EXCEPT !.state = "attached", !.started = stream.started,
                                      !.finished = stream.finished,
                                      !.received = [i \in 1..stream.finished |-> i]]]
    /\ StreamRest

\* websocket_endpoint: accept, then "ws_connections[run_id].append(websocket)";
\* the append is seen by a broadcast that iterates this list object
ws_attach ==
    /\ stream.on
    /\ \E ws \in Subscribers :
          /\ stream.sub[ws].state = "new"
          /\ stream' = [stream EXCEPT
                !.conns = Append(@, ws),
                !.clients = IF stream.emitting /\ stream.same_list THEN Append(@, ws) ELSE @,
                !.sub[ws] = [@ EXCEPT !.state = "attached", !.started = stream.started,
                                      !.finished = stream.finished]]
    /\ StreamRest

\* the client goes away: a send to the connection raises from now on
ws_close ==
    /\ stream.on
    /\ \E ws \in Subscribers :
          /\ stream.sub[ws].state = "attached"
          /\ stream' = [stream EXCEPT !.sub[ws].state = "closed"]
    /\ StreamRest

\* websocket_endpoint, finally: the list of the run is replaced by a new one
ws_detach ==
    /\ stream.on
    /\ \E ws \in Subscribers :
          /\ stream.sub[ws].state = "closed"
          /\ stream' = [stream EXCEPT !.conns = Without(@, ws), !.same_list = FALSE,
                                      !.sub[ws].state = "detached"]
    /\ StreamRest

\* "await ws.send_json(event_dict)" for the next client of the list, and
\* "except Exception: disconnected.append(ws)"
send_json(s) ==
    LET ws == s.clients[s.next]
    IN  IF s.sub[ws].state = "attached"
        THEN [s EXCEPT !.next = @ + 1, !.sub[ws].received = Append(@, s.started)]
        ELSE [s EXCEPT !.next = @ + 1, !.disconnected = Append(@, ws)]

\* emit_event up to its first await: "clients = ws_connections.get(run_id, [])"
\* and the first send; with no client the call returns without an await
emit_start ==
    /\ stream.on /\ ~stream.emitting /\ stream.started < MaxEvents
    /\ stream' = IF stream.conns = <<>>
                 THEN [stream EXCEPT !.started = @ + 1, !.finished = @ + 1]
                 ELSE send_json([stream EXCEPT !.started = @ + 1, !.emitting = TRUE,
                                               !.clients = stream.conns, !.same_list = TRUE,
                                               !.next = 1, !.disconnected = <<>>])
    /\ StreamRest

\* emit_event, a later turn of "for ws in clients: await ws.send_json(event_dict)"
emit_send ==
    /\ stream.on /\ stream.emitting /\ stream.next <= Len(stream.clients)
    /\ stream' = send_json(stream)
    /\ StreamRest

\* emit_event after the loop: the clients whose send raised are taken out
emit_done ==
    /\ stream.on /\ stream.emitting /\ stream.next > Len(stream.clients)
    /\ stream' = [stream EXCEPT
          !.emitting = FALSE, !.finished = @ + 1, !.clients = <<>>,
          !.same_list = FALSE, !.disconnected = <<>>,
          !.conns = SelectSeq(@, LAMBDA c : \A i \in DOMAIN stream.disconnected :
                                               stream.disconnected[i] # c)]
    /\ StreamRest

SpecStream ==
    InitStream /\ [][ws_attach \/ ws_close \/ ws_detach \/ emit_start \/ emit_send
                     \/ emit_done]_vars

-----------------------------------------------------------------------------
(* Properties of the event stream *)

\* every subscriber got its events in the order of emission, each once
InOrderOnce ==
    \A ws \in Subscribers :
       \A i, j \in DOMAIN stream.sub[ws].received :
          i < j => stream.sub[ws].received[i] < stream.sub[ws].received[j]

\* C23 as stated: the stream is ordered and at-most-once, and a subscriber
\* receives no event that the Controller emitted before the subscriber
\* attached, also when it attaches while an event is being broadcast.
C23_NoEventFromBeforeAttach ==
    stream.on =>
        /\ InOrderOnce
        /\ \A ws \in Subscribers : \A i \in DOMAIN stream.sub[ws].received :
              stream.sub[ws].received[i] > stream.sub[ws].started

\* C23: the stream is ordered and at-most-once, and a subscriber receives no
\* event whose broadcast was over before the subscriber attached; the event
\* being broadcast while it attaches may reach it.
C23_NoReplayOfFinishedEvents ==
    stream.on =>
        /\ InOrderOnce
        /\ \A ws \in Subscribers : \A i \in DOMAIN stream.sub[ws].received :
              stream.sub[ws].received[i] > stream.sub[ws].finished

\* a subscriber attached after the first event was broadcast and received
\* the later ones, while the other one left during a broadcast
C23_LateSubscriberServed ==
    /\ stream.on
    /\ \E ws \in Subscribers :
          /\ stream.sub[ws].finished >= 1
          /\ Len(stream.sub[ws].received) >= 2
          /\ \E other \in Subscribers \ {ws} :
                stream.sub[other].state = "detached" /\ stream.sub[other].received # <<>>

-----------------------------------------------------------------------------
(* The checkouts of runs that are active at the same time: start_run        *)
(* starts a task per run, and the tasks give way to each other at the       *)
(* awaits of Agent.run.                                                     *)

\* repo_url.rstrip("/").split("/")[-1].replace(".git", "")
repo_name ==
    "https://github.com/alice/app"   :> "app" @@
    "https://github.com/bob/app.git" :> "app" @@
    "https://github.com/alice/lib/"  :> "lib"

\* the runs started through POST /api/runs
RunIds == {"run1", "run2"}

NoDirectory == [exists |-> FALSE, cloned_by |-> {}, written_by |-> {}, clones |-> 0]

InitClone ==
    /\ ControllerIdle
    /\ repo = <<>> /\ head = <<>> /\ walk_order = <<>>
    /\ cls_failures = <<>> /\ cls_result = Idle
    /\ loc_failure = Idle /\ loc_result = Idle
    /\ UnitsIdle
    /\ registry = NoRun /\ stream = NoStream /\ attempt = NoAttempt /\ pair = NoPair
    /\ \E urls \in [RunIds -> DOMAIN repo_name] :
          checkout = [on   |-> TRUE,
                      runs |-> [r \in RunIds |->
                                  [status |-> "started", repo_url |-> urls[r],
                                   repo_path |-> None]],
                      dirs |-> [d \in {repo_name[u] : u \in DOMAIN repo_name} |->
                                  NoDirectory]]

CloneRest == UNCHANGED <<ctlVars, fsVars, clsVars, locVars, unitVars, registry, stream, attempt, pair>>

\* CloneService.clone: the directory of the repository name is removed if it
\* exists and the repository is cloned into it
clone ==
    /\ checkout.on
    /\ \E r \in RunIds :
          /\ checkout.runs[r].status = "started"
          /\ \E clone_dir \in {repo_name[checkout.runs[r].repo_url]} :
                checkout' = [checkout EXCEPT
                    !.runs[r] = [@ EXCEPT !.status = "running", !.repo_path = clone_dir],
                    !.dirs[clone_dir] = [exists |-> TRUE, cloned_by |-> {r},
                                         written_by |-> {}, clones |-> @.clones + 1]]
    /\ CloneRest

\* a fix of the run is written into its repo_path
write_fix ==
    /\ checkout.on
    /\ \E r \in RunIds :
          /\ checkout.runs[r].status = "running"
          /\ r \notin checkout.dirs[checkout.runs[r].repo_path].written_by
          /\ checkout' = [checkout EXCEPT
                !.dirs[checkout.runs[r].repo_path].written_by = @ \cup {r}]
    /\ CloneRest

\* Agent.run returns; the checkout stays where it is
run_ends ==
    /\ checkout.on
    /\ \E r \in RunIds :
          /\ checkout.runs[r].status = "running"
          /\ checkout' = [checkout EXCEPT !.runs[r].status = "completed"]
    /\ CloneRest

SpecClone == InitClone /\ [][clone \/ write_fix \/ run_ends]_vars

-----------------------------------------------------------------------------
(* Properties of concurrent runs *)

ActiveRuns == {r \in RunIds : checkout.runs[r].status = "running"}

\* C24: two runs that are active at the same time have different checkout
\* directories, also for the same repository; the checkout of an active run
\* is the clone the run made, and only that run has written fixes into it.
C24_ActiveRunsHaveOwnCheckout ==
    checkout.on =>
        /\ \A r1, r2 \in ActiveRuns :
              r1 # r2 => checkout.runs[r1].repo_path # checkout.runs[r2].repo_path
        /\ \A r \in ActiveRuns :
              /\ checkout.dirs[checkout.runs[r].repo_path].cloned_by = {r}
              /\ checkout.dirs[checkout.runs[r].repo_path].written_by \subseteq {r}

-----------------------------------------------------------------------------
(* The Fix Applier under faults: which of its steps are inside a try, and   *)
(* what each except clause catches.                                         *)

\* what can go wrong in one call: the Oracle request raises (error status,
\* timeout), the Oracle answers nothing, open() of the target raises an
\* OSError, the target is not text in the default encoding (read() raises
\* UnicodeDecodeError, a ValueError), the same two for the test file, and
\* open(target, "w") raises an OSError
Faults == {"none", "oracle_raises", "oracle_empty", "read_denied", "read_undecodable",
           "test_read_denied", "test_read_undecodable", "write_denied"}

\* generate_fix / generate_fix_for_file from the first read of the target on:
\* "except IOError" around the reads, "except Exception" around the Oracle
\* call, the extraction and the write
oracle_path(fault, test_exists, usable) ==
    IF fault = "read_denied" THEN "none"
    ELSE IF fault = "read_undecodable" THEN "raised"
    ELSE IF test_exists /\ fault = "test_read_undecodable" THEN "raised"
    ELSE IF fault \in {"oracle_raises", "oracle_empty"} THEN "none"
    ELSE IF ~usable THEN "none"
    ELSE IF fault = "write_denied" THEN "none"
    ELSE "fix"

\* one call: entry is the function called, located says whether the
\* localizer found a file, rewrite whether the import rewrite applies and
\* changes the file, usable whether the Oracle's answer yields a new content
applier_call(entry, fault, located, rewrite, test_exists, usable) ==
    IF entry = "generate_fix_for_file" THEN oracle_path(fault, test_exists, usable)
    ELSE IF ~located THEN "none"
    ELSE IF rewrite /\ fault \notin {"read_denied", "read_undecodable", "write_denied"}
         THEN "fix"
    ELSE oracle_path(fault, test_exists, usable)

InitFaults ==
    /\ ControllerIdle
    /\ repo = <<>> /\ head = <<>> /\ walk_order = <<>>
    /\ cls_failures = <<>> /\ cls_result = Idle
    /\ loc_failure = Idle /\ loc_result = Idle
    /\ UnitsIdle
    /\ registry = NoRun /\ stream = NoStream /\ checkout = NoCheckout /\ pair = NoPair
    /\ \E entry \in {"generate_fix", "generate_fix_for_file"}, fault \in Faults,
          located, rewrite, test_exists, usable \in BOOLEAN :
          attempt = [on |-> TRUE, done |-> FALSE, entry |-> entry, fault |-> fault,
                     located |-> located, rewrite |-> rewrite,
                     test_exists |-> test_exists, usable |-> usable, result |-> "none"]

CallApplier ==
    /\ attempt.on /\ ~attempt.done
    /\ attempt' = [attempt EXCEPT
          !.done = TRUE,
          !.result = applier_call(attempt.entry, attempt.fault, attempt.located,
                                  attempt.rewrite, attempt.test_exists, attempt.usable)]
    /\ UNCHANGED <<ctlVars, fsVars, clsVars, locVars, unitVars, registry, stream, checkout, pair>>

SpecFaults == InitFaults /\ [][CallApplier]_vars

-----------------------------------------------------------------------------
(* Properties of the Fix Applier under faults *)

\* the call reached the Oracle path
OnOraclePath ==
    \/ attempt.entry = "generate_fix_for_file"
    \/ attempt.located /\ ~attempt.rewrite
    \/ attempt.located /\ attempt.fault \in {"read_denied", "read_undecodable", "write_denied"}

\* C25: the Fix Applier never raises: a failing Oracle call, an empty or
\* unusable answer and a target file that cannot be read or written each
\* give none.
C25_ApplierNeverRaises ==
    (attempt.on /\ attempt.done) =>
        /\ attempt.result # "raised"
        /\ (/\ OnOraclePath
            /\ \/ attempt.fault \in {"oracle_raises", "oracle_empty", "read_denied",
                                     "read_undecodable", "write_denied"}
               \/ ~attempt.usable) => attempt.result = "none"

-----------------------------------------------------------------------------
(* Properties of what the Fault Localizer returns *)

\* C27: for every Failure Record, also one whose file path is empty, the
\* Fault Localizer returns none or a regular file of the working tree, never
\* a directory.
C27_LocalizerReturnsFileOrNone ==
    loc_result # Idle => (loc_result = None \/ loc_result \in DOMAIN repo)

\* C28: every Failure Record the fatal-syntax shortcut of the Localizer
\* accepts is classified SYNTAX or INDENTATION by the single-record
\* classifier.
C28_ShortcutAgreesWithClassifier ==
    (/\ loc_result # Idle
     /\ strategy_syntax(loc_failure, repo) # None
     /\ loc_result = strategy_syntax(loc_failure, repo))
    => _classify_bug_type(loc_failure) \in {"SYNTAX", "INDENTATION"}

-----------------------------------------------------------------------------
(* The Change Record of a group and the file the group was formed for *)

\* the group being processed when the j-th operation happened
GroupAt(j) ==
    LET before == {i \in 1..j : events[i].op = "group"}
    IN  events[CHOOSE i \in before : \A k \in before : k <= i]

\* C26: within a round, the Change Record produced while a group is
\* processed targets the file the group was formed for.
C26_FixTargetsGroupFile ==
    \A j \in DOMAIN events :
        events[j].op = "fix" => events[j].file = GroupAt(j).file

-----------------------------------------------------------------------------
(* CI/CD monitoring and the push of the fix branch *)

PushFailed == \E i \in DOMAIN events : events[i].op = "push" /\ events[i].n = 0

NoStepRaised == \A i \in DOMAIN events : events[i].op # "error"

\* C29: in Agent.run the monitoring of the fix branch starts only after the
\* push of the branch succeeded in the same run; when the push fails the
\* final status is derived from the last local test result (in a run no
\* step of which raised).
C29_MonitorOnlyAfterPush ==
    mode = "agent" =>
        /\ \A j \in DOMAIN events :
              events[j].op = "monitor" =>
                  \E i \in 1..(j - 1) : events[i].op = "push" /\ events[i].n = 1
        /\ (pc = "done" /\ PushFailed /\ NoStepRaised) =>
              summary.cicd_status = IF test_result.success THEN "passed" ELSE "failed"

-----------------------------------------------------------------------------
(* The two controllers on the same inputs.  A run of Agent.run on a budget, *)
(* a working tree, a sequence of test results and a sequence of Oracle      *)
(* responses is followed by a run of the graph workflow on the same inputs; *)
(* the steps are the actions of the controllers, with the inputs they       *)
(* choose taken from the given sequences.  No step raises.                  *)

\* the answers of the Oracle are given for MaxRequests requests and repeat
MaxRequests == 2

Passed == [success |-> TRUE, failures |-> <<>>]

\* the test results given to the controllers: passed, or failed with some of
\* the Failure Records of the suite, or with none
GivenResults(s) == {Passed} \cup {[success |-> FALSE, failures |-> l] : l \in DistinctLists(s)}

\* the result of the next test execution
NextResult == pair.results[TestExecutions + 1]

\* the answer to the next Oracle request
NextResponse == pair.responses[(Count("oracle") % MaxRequests) + 1]

\* what the claim compares: test executions, fix rounds, Iteration Records,
\* Change Records
RunOutcome(rounds) ==
    [tests |-> TestExecutions, rounds |-> rounds, iterations |-> summary.iterations,
     changes |-> all_changes]

InitPair ==
    /\ mode = "agent" /\ pc = "initial_test"
    /\ max_iterations \in 0..MaxBudget
    /\ \E s \in Scenarios :
          /\ repo = s.tree /\ suite = s.suite
          /\ \E rs \in [1..(max_iterations + 1) -> GivenResults(s.suite)],
                ps \in [1..MaxRequests -> OracleResponses] :
                pair = [on |-> TRUE, results |-> rs, responses |-> ps, tree |-> s.tree,
                        agent |-> <<>>]
    /\ head = repo
    /\ walk_order \in WalkOrders(DOMAIN repo)
    /\ test_result = [success |-> FALSE, failures |-> <<>>]
    /\ iteration = 0 /\ failures_before = 0 /\ groups = <<>> /\ tried = 0
    /\ fixes = <<>> /\ all_changes = <<>> /\ summary = NewSummary /\ events = <<>>
    /\ cls_failures = <<>> /\ cls_result = Idle
    /\ loc_failure = Idle /\ loc_result = Idle
    /\ UnitsIdle
    /\ registry = NoRun /\ stream = NoStream /\ checkout = NoCheckout /\ attempt = NoAttempt

\* a test execution that returns the next given result
GivenTest ==
    /\ test_result' = NextResult
    /\ events'[Len(events')].file = ""

\* a call of generate_fix whose Oracle request gets the next given answer
GivenRecordFix ==
    /\ repo' = generate_fix(Head(groups).failures[tried + 1], repo, walk_order,
                            NextResponse).tree
    /\ pc' # "aborted"

\* a call of generate_fix_for_file whose Oracle request gets the next given answer
GivenFileFix ==
    /\ repo' = generate_fix_for_file(Head(groups).failures, Head(groups).file, repo,
                                     NextResponse).tree
    /\ pc' # "aborted"

PairAgentInitialTest == pair.on /\ AgentInitialTest /\ GivenTest
PairAgentLoop        == pair.on /\ AgentLoop
PairAgentTryRecord   == pair.on /\ AgentTryRecord /\ GivenRecordFix
PairAgentTryFile     == pair.on /\ AgentTryFile /\ GivenFileFix
PairAgentRetest      == pair.on /\ AgentRetest /\ GivenTest

\* Agent.run has left its loop: its outcome is kept and the graph workflow
\* starts at test_node on the same tree
PairSecondController ==
    /\ pair.on /\ mode = "agent" /\ pc \in {"done", "publish"}
    /\ pair' = [pair EXCEPT !.agent = <<RunOutcome(Len(summary.iterations))>>]
    /\ mode' = "graph" /\ pc' = "test"
    /\ repo' = pair.tree /\ head' = pair.tree
    /\ test_result' = [success |-> FALSE, failures |-> <<>>]
    /\ iteration' = 0 /\ failures_before' = 0 /\ groups' = <<>> /\ tried' = 0
    /\ fixes' = <<>> /\ all_changes' = <<>> /\ summary' = NewSummary /\ events' = <<>>
    /\ UNCHANGED <<max_iterations, suite, walk_order, clsVars, locVars, unitVars,
                   registry, stream, checkout, attempt>>

Pair_test_node           == pair.on /\ test_node /\ GivenTest
Pair_fix_node_start      == pair.on /\ fix_node_start
Pair_fix_node_try_record == pair.on /\ fix_node_try_record /\ GivenRecordFix
Pair_fix_node_try_file   == pair.on /\ fix_node_try_file /\ GivenFileFix
Pair_fix_node_end        == pair.on /\ fix_node_end

NextPair ==
    \/ PairAgentInitialTest \/ PairAgentLoop \/ PairAgentTryRecord \/ PairAgentTryFile
    \/ PairAgentRetest \/ PairSecondController
    \/ Pair_test_node \/ Pair_fix_node_start \/ Pair_fix_node_try_record
    \/ Pair_fix_node_try_file \/ Pair_fix_node_end

SpecPair == InitPair /\ [][NextPair]_vars

\* the graph workflow has left its loop
GraphLoopLeft == pair.on /\ mode = "graph" /\ pc = "pr"

\* C30: for the same budget, test results, localizations and Oracle
\* responses, Agent.run and the graph workflow perform the same number of
\* test executions and fix rounds, append the same Iteration Records and
\* accumulate the same ordered list of Change Records.
C30_ControllersEquivalent ==
    GraphLoopLeft => pair.agent = <<RunOutcome(iteration)>>

====
